---- MODULE Spec2Model ----
(***************************************************************************)
(* Telemetry pipeline of the AI observability demo: the instrumented       *)
(* operation recorders of app/openai_service.py (chat_completion,          *)
(* create_embeddings) and app/vector_db_service.py (add_embeddings,        *)
(* similarity_search), the cost model and the heuristic eval scorer, the   *)
(* exporter set-up of app/observability.py (endpoint resolution, header    *)
(* parsing, histogram views) and, of app/main.py, the request middleware   *)
(* and the /ai/full-pipeline route.                                        *)
(*                                                                         *)
(* Scheduling: the recorders are asyncio coroutines.  Code between two     *)
(* awaits runs atomically on the event loop, so chat_completion and        *)
(* create_embeddings are two atomic segments each (up to the awaited       *)
(* collaborator call, and from its outcome to the exit), while             *)
(* add_embeddings and similarity_search contain no await and are one       *)
(* atomic segment.  asyncio.CancelledError derives from BaseException      *)
(* (Python >= 3.8), so "except Exception" does not catch it.               *)
(*                                                                         *)
(* Representation: strings are sequences of units (characters or tokens);  *)
(* an optional value is a record with a "some" flag; money is an integer   *)
(* number of 1e-7 USD; the durations the recorders emit are abstracted to  *)
(* 0, those of the pipeline are clock ticks and histogram boundaries are   *)
(* milliseconds; an eval score is an integer number of hundredths.         *)
(***************************************************************************)
EXTENDS Integers, Sequences, FiniteSets, TLC

VARIABLES calls, collection, done, pricing,
          cost_calls, eval_call, otlp, header_call,
          pipeline,
          requests,
          active_requests,
          storage_meter,
          meter_provider

vars == <<calls, collection, done, pricing, cost_calls, eval_call, otlp, header_call,
         pipeline,
         requests,
         active_requests,
         storage_meter,
         meter_provider>>

\* ---------------------------------------------------------------- bounds
MaxCalls == 2
MaxTokens == 2
MaxDocs == 2

Slots == 1..MaxCalls
TokenCounts == {0, MaxTokens}

\* ------------------------------------------------------- optional values
NoneText == [some |-> FALSE, val |-> <<>>]
SomeText(s) == [some |-> TRUE, val |-> s]

NoUsage == [some |-> FALSE, prompt_tokens |-> 0, completion_tokens |-> 0, total_tokens |-> 0]
MkUsage(p, c) == [some |-> TRUE, prompt_tokens |-> p, completion_tokens |-> c, total_tokens |-> p + c]

\* ------------------------------------------------------------ cost model
default_model == "gpt-4-turbo-preview"
embedding_model == "text-embedding-ada-002"

\* The table __init__ assigns to self.pricing, per token, in units of
\* 1e-7 USD (0.01 USD per 1K tokens = 100).  The attribute itself is the
\* state variable pricing: _calculate_cost reads it at every call.
initial_pricing ==
  [m \in {"gpt-4-turbo-preview", "gpt-4", "gpt-3.5-turbo", "text-embedding-ada-002"} |->
     CASE m = "gpt-4-turbo-preview"    -> [input |-> 100, output |-> 300]
       [] m = "gpt-4"                  -> [input |-> 300, output |-> 600]
       [] m = "gpt-3.5-turbo"          -> [input |-> 10,  output |-> 20]
       [] m = "text-embedding-ada-002" -> [input |-> 1,   output |-> 0]]

\* variant of calculate_cost that bills every started block of 1K tokens in full
calculate_cost_whole_blocks(model, input_tokens, output_tokens) ==
  IF model \notin DOMAIN pricing
    THEN 0
    ELSE ((input_tokens + 999) \div 1000) * 1000 * pricing[model].input
         + ((output_tokens + 999) \div 1000) * 1000 * pricing[model].output

\* variant of calculate_cost with a free allowance: the first 1K output tokens
\* are free once the prompt reaches 1K tokens
calculate_cost_free_allowance(model, input_tokens, output_tokens) ==
  IF model \notin DOMAIN pricing
    THEN 0
    ELSE input_tokens * pricing[model].input
         + (IF input_tokens >= 1000 /\ output_tokens <= 1000 THEN 0 ELSE output_tokens)
           * pricing[model].output

\* variant of calculate_cost that bills an unknown model at the default model's rates
calculate_cost_default_rates(model, input_tokens, output_tokens) ==
  LET m == IF model \in DOMAIN pricing THEN model ELSE default_model
  IN  input_tokens * pricing[m].input + output_tokens * pricing[m].output

\* _calculate_cost
calculate_cost(model, input_tokens, output_tokens) ==
  IF model \notin DOMAIN pricing
    THEN 0
    ELSE input_tokens * pricing[model].input + output_tokens * pricing[model].output

\* ------------------------------------------------------------ primitives
Whitespace == {" ", "\t"}

\* str.strip(): drops leading and trailing whitespace
Strip(s) ==
  LET keep == {i \in 1..Len(s) : s[i] \notin Whitespace}
  IN  IF keep = {} THEN <<>>
      ELSE LET lo == CHOOSE i \in keep : \A j \in keep : i <= j
               hi == CHOOSE i \in keep : \A j \in keep : j <= i
           IN  SubSeq(s, lo, hi)

\* A string is a sequence of units.  A unit is one character or one word
\* that no test of the code looks into ("otlp", "grpc", "Basic", ...); the
\* patterns the code searches for are sequences of whole units.
\* str.lower() of one unit
LowerUnit(c) ==
  CASE c = "A" -> "a"
    [] c = "GRPC" -> "grpc"
    [] c = "HTTP" -> "http"
    [] c = "OTLP" -> "otlp"
    [] c = "Authorization" -> "authorization"
    [] c = "Basic" -> "basic"
    [] c = "Bearer" -> "bearer"
    [] c = "X" -> "x"
    [] c = "Y" -> "y"
    [] OTHER -> c

\* str.lower()
Lower(s) == [i \in 1..Len(s) |-> LowerUnit(s[i])]

\* pat in s
Contains(s, pat) == \E i \in 1..(Len(s) - Len(pat) + 1) : SubSeq(s, i, i + Len(pat) - 1) = pat

\* s.startswith(pat), s.endswith(pat)
StartsWith(s, pat) == Len(pat) <= Len(s) /\ SubSeq(s, 1, Len(pat)) = pat
EndsWith(s, pat) == Len(pat) <= Len(s) /\ SubSeq(s, Len(s) - Len(pat) + 1, Len(s)) = pat

\* s.rstrip(chars), s.lstrip(chars), s.strip(chars)
RStripChars(s, chars) ==
  LET keep == {i \in 1..Len(s) : s[i] \notin chars}
  IN  IF keep = {} THEN <<>>
      ELSE SubSeq(s, 1, CHOOSE i \in keep : \A j \in keep : j <= i)
LStripChars(s, chars) ==
  LET keep == {i \in 1..Len(s) : s[i] \notin chars}
  IN  IF keep = {} THEN <<>>
      ELSE SubSeq(s, CHOOSE i \in keep : \A j \in keep : i <= j, Len(s))
StripChars(s, chars) == LStripChars(RStripChars(s, chars), chars)

\* len(str.split()): number of maximal runs of non-whitespace characters
SplitCount(s) ==
  Cardinality({i \in 1..Len(s) :
                 s[i] \notin Whitespace /\ (i = 1 \/ s[i - 1] \in Whitespace)})

\* ' ' in s
HasSpaceChar(s) == \E i \in 1..Len(s) : s[i] = " "

BoolCount(seq) == Cardinality({i \in 1..Len(seq) : seq[i]})

\* ---------------------------------------------------- metric events, steps
\* One call of an instrument: Counter.add / Histogram.record
Ev(name, value, attrs) == [name |-> name, value |-> value, attrs |-> attrs]

\* A step of a handler body that can end the body early: an instrument call
\* (which may raise) or a statement that raises by itself.
Emit(ev) == [k |-> "emit", ev |-> ev, err |-> "None", in_eval |-> FALSE]
EvalEmit(ev) == [k |-> "emit", ev |-> ev, err |-> "None", in_eval |-> TRUE]
Raise(err) == [k |-> "raise", ev |-> Ev("", 0, [none |-> TRUE]), err |-> err, in_eval |-> FALSE]

\* ----------------------------------------------------------- eval scorer
\* variant of eval_criteria whose has_spaces accepts any whitespace character
eval_criteria_any_whitespace(model_output, reference_input) ==
  LET out == IF model_output.some THEN Strip(model_output.val) ELSE <<>>
      ref == IF reference_input.some THEN Strip(reference_input.val) ELSE <<>>
  IN  [has_content       |-> Len(out) > 0,
       reasonable_length |-> Len(out) > 10,
       not_just_input    |-> Lower(out) # Lower(ref),
       has_spaces        |-> \E i \in 1..Len(out) : out[i] \in Whitespace,
       not_gibberish     |-> SplitCount(out) > 2]

\* the five quality checks of run_eval
eval_criteria(model_output, reference_input) ==
  LET out == IF model_output.some THEN Strip(model_output.val) ELSE <<>>
      ref == IF reference_input.some THEN Strip(reference_input.val) ELSE <<>>
  IN  [has_content       |-> Len(out) > 0,
       reasonable_length |-> Len(out) > 10,
       not_just_input    |-> Lower(out) # Lower(ref),
       has_spaces        |-> HasSpaceChar(out),
       not_gibberish     |-> SplitCount(out) > 2]

\* variant of eval_result that passes only above 0.6
eval_result_strict_threshold(model_output, reference_input) ==
  LET c == eval_criteria(model_output, reference_input)
      criteria_met == BoolCount(<<c.has_content, c.reasonable_length, c.not_just_input,
                                  c.has_spaces, c.not_gibberish>>)
      score == (criteria_met * 100) \div 5
  IN  [some |-> TRUE, score |-> score, passed |-> score > 60, criteria |-> c]

\* the dict returned by run_eval; score in hundredths (criteria_met / 5.0)
eval_result(model_output, reference_input) ==
  LET c == eval_criteria(model_output, reference_input)
      criteria_met == BoolCount(<<c.has_content, c.reasonable_length, c.not_just_input,
                                  c.has_spaces, c.not_gibberish>>)
      score == (criteria_met * 100) \div 5
  IN  [some |-> TRUE, score |-> score, passed |-> score >= 60, criteria |-> c]

NoEval ==
  [some |-> FALSE, score |-> 0, passed |-> FALSE,
   criteria |-> [has_content |-> FALSE, reasonable_length |-> FALSE, not_just_input |-> FALSE,
                 has_spaces |-> FALSE, not_gibberish |-> FALSE]]

\* user_id argument: "" stands for None (the default) and for the empty string
NoUserId == ""

\* variant of run_eval_steps that counts every eval as passed
run_eval_steps_always_passed(model_output, reference_input, user_id, system, operation, model) ==
  LET r == eval_result(model_output, reference_input)
      attrs == [system |-> system, operation |-> operation, model |-> model,
                user_id |-> IF user_id = NoUserId THEN "unknown" ELSE user_id]
  IN  << EvalEmit(Ev("gen_ai.eval.score", r.score, attrs)),
         EvalEmit(Ev("gen_ai.eval.duration", 0, attrs)),
         EvalEmit(Ev("gen_ai.eval.passed", 1, attrs)) >>

\* the instrument calls of run_eval, in order; attrs keeps the attributes
\* that depend on the arguments (eval.name, eval.criteria and
\* telemetry_sdk_name are the same constants on every call)
run_eval_steps(model_output, reference_input, user_id, system, operation, model) ==
  LET r == eval_result(model_output, reference_input)
      attrs == [system |-> system, operation |-> operation, model |-> model,
                user_id |-> IF user_id = NoUserId THEN "unknown" ELSE user_id]
  IN  << EvalEmit(Ev("gen_ai.eval.score", r.score, attrs)),
         EvalEmit(Ev("gen_ai.eval.duration", 0, attrs)),
         IF r.passed THEN EvalEmit(Ev("gen_ai.eval.passed", 1, attrs))
                     ELSE EvalEmit(Ev("gen_ai.eval.failed", 1, attrs)) >>

\* ------------------------------------------------ running a handler body
Through == [events |-> << >>, err |-> "None", site |-> "none"]

\* Runs steps[j..]; the k-th instrument call from here raises (k = 0: none
\* does).  Gives the events emitted, the exception type leaving the body
\* ("None" when it runs through) and where the exception came from.
RECURSIVE RunFrom(_, _, _)
RunFrom(steps, j, k) ==
  IF j > Len(steps) THEN Through
  ELSE IF steps[j].k = "raise"
    THEN [events |-> << >>, err |-> steps[j].err, site |-> "code"]
  ELSE IF k = 1
    THEN [events |-> << >>, err |-> "MetricError",
          site |-> IF steps[j].in_eval THEN "eval" ELSE "metric"]
  ELSE LET r == RunFrom(steps, j + 1, IF k = 0 THEN 0 ELSE k - 1)
       IN  [r EXCEPT !.events = <<steps[j].ev>> \o @]

RunBody(steps, failAt) == RunFrom(steps, 1, failAt)

\* the instrument calls that can be made to raise: those the body reaches
FaultSites(steps) == 0..Len(RunBody(steps, 0).events)

\* ------------------------------------------------------ OpenAIService
\* the prompt text passed as messages[0]["content"]
Prompt == SomeText(<<"a">>)

\* model argument: "" stands for None ("model or self.default_model")
ModelArgs == {"", "ft-custom"}

\* completion texts and usage blocks the collaborator can answer with
Completions == {NoneText, SomeText(<<"a", " ", "b", " ", "c">>)}
ChatUsages == {NoUsage} \cup {MkUsage(p, c) : p \in TokenCounts, c \in TokenCounts}
EmbeddingUsages == {NoUsage} \cup {MkUsage(p, 0) : p \in TokenCounts}

\* exception types the OpenAI client raises (all derive from Exception)
CollaboratorErrors == {"APIConnectionError", "RateLimitError"}

\* variant of chat_token_usage that records the input sample only
chat_token_usage_input_only(model, input_tokens, output_tokens) ==
  << Emit(Ev("gen_ai.client.token.usage", input_tokens,
             [system |-> "openai", model |-> model, token_type |-> "input"])) >>

\* the two gen_ai_client_token_usage.record calls of chat_completion
chat_token_usage(model, input_tokens, output_tokens) ==
  << Emit(Ev("gen_ai.client.token.usage", input_tokens,
             [system |-> "openai", model |-> model, token_type |-> "input"])),
     Emit(Ev("gen_ai.client.token.usage", output_tokens,
             [system |-> "openai", model |-> model, token_type |-> "output"])) >>

\* chat_completion, from the collaborator's response to the return statement
chat_try_body(model, completion, usage) ==
  LET input_tokens  == IF usage.some THEN usage.prompt_tokens ELSE 0
      output_tokens == IF usage.some THEN usage.completion_tokens ELSE 0
      cost == calculate_cost(model, input_tokens, output_tokens)
      common == [system |-> "openai", model |-> model, operation |-> "chat"]
  IN  << Emit(Ev("gen_ai.client.operation.duration", 0, common)) >>
      \o chat_token_usage(model, input_tokens, output_tokens)
      \o << Emit(Ev("gen_ai.usage.input_tokens", input_tokens, common)),
         Emit(Ev("gen_ai.usage.output_tokens", output_tokens, common)),
         Emit(Ev("gen_ai.client.operation.count", 1,
                 [system |-> "openai", model |-> model, operation |-> "chat",
                  status |-> "success"])),
         Emit(Ev("gen_ai.total_requests", 1, common)),
         Emit(Ev("gen_ai.client.operation.cost", cost, [model |-> model])),
         Emit(Ev("gen_ai.usage.cost", cost, common)) >>
      \o (IF output_tokens > 0
            THEN << Emit(Ev("gen_ai.server.time_per_output_token", 0, common)) >>
            ELSE << >>)
      \o run_eval_steps(completion, Prompt, NoUserId, "openai", "chat", model)

\* the dict chat_completion returns
chat_payload(model, completion, usage) ==
  LET input_tokens  == IF usage.some THEN usage.prompt_tokens ELSE 0
      output_tokens == IF usage.some THEN usage.completion_tokens ELSE 0
  IN  [some |-> TRUE,
       prompt_tokens |-> input_tokens,
       completion_tokens |-> output_tokens,
       total_tokens |-> IF usage.some THEN usage.total_tokens ELSE 0,
       cost_usd |-> calculate_cost(model, input_tokens, output_tokens),
       eval |-> eval_result(completion, Prompt)]

\* variant of chat_except_body that also charges a cost on the error path
chat_except_body_charging(model, e) ==
  << Emit(Ev("gen_ai.client.operation.count", 1,
             [system |-> "openai", model |-> model, operation |-> "chat",
              status |-> "error", error_type |-> e])),
     Emit(Ev("gen_ai.client.operation.cost", 0, [model |-> model])) >>

\* "except Exception as e" of chat_completion, up to the bare raise
chat_except_body(model, e) ==
  << Emit(Ev("gen_ai.client.operation.count", 1,
             [system |-> "openai", model |-> model, operation |-> "chat",
              status |-> "error", error_type |-> e])) >>

\* create_embeddings, from the collaborator's response to the return statement
embeddings_try_body(model, usage) ==
  IF ~usage.some
    THEN << Raise("AttributeError") >>
    ELSE
      LET input_tokens == usage.total_tokens
          cost == calculate_cost(model, input_tokens, 0)
          common == [system |-> "openai", model |-> model, operation |-> "embeddings"]
      IN  << Emit(Ev("gen_ai.client.operation.duration", 0, common)),
             Emit(Ev("gen_ai.client.token.usage", input_tokens,
                     [system |-> "openai", model |-> model, token_type |-> "input"])),
             Emit(Ev("gen_ai.usage.input_tokens", input_tokens, common)),
             Emit(Ev("gen_ai.client.operation.count", 1,
                     [system |-> "openai", model |-> model, operation |-> "embeddings",
                      status |-> "success"])),
             Emit(Ev("gen_ai.total_requests", 1, common)),
             Emit(Ev("gen_ai.client.operation.cost", cost, common)),
             Emit(Ev("gen_ai.usage.cost", cost, common)) >>

\* the dict create_embeddings returns
embeddings_payload(model, usage) ==
  [some |-> TRUE,
   prompt_tokens |-> usage.total_tokens,
   completion_tokens |-> 0,
   total_tokens |-> usage.total_tokens,
   cost_usd |-> calculate_cost(model, usage.total_tokens, 0),
   eval |-> NoEval]

\* "except Exception as e" of create_embeddings, up to the bare raise
embeddings_except_body(model, e) ==
  << Emit(Ev("gen_ai.client.operation.count", 1,
             [system |-> "openai", model |-> model, operation |-> "embeddings",
              status |-> "error", error_type |-> e])) >>

\* ------------------------------------------------ VectorDatabaseService
\* exception types the ChromaDB collection raises (all derive from Exception)
CollectionErrors == {"ValueError", "DuplicateIDError"}

\* variant of add_embeddings_try_body that counts one document per call
add_embeddings_try_body_counts_call(n_documents) ==
  << Emit(Ev("vector_operation_duration_seconds", 0, [operation |-> "add_embeddings"])),
     Emit(Ev("vector_operations_total", 1,
             [operation |-> "add_embeddings", status |-> "success"])),
     Emit(Ev("vector_storage_documents_total", 1, [db_system |-> "chromadb"])) >>

\* add_embeddings, from the return of collection.add to the return statement
add_embeddings_try_body(n_documents) ==
  << Emit(Ev("vector_operation_duration_seconds", 0, [operation |-> "add_embeddings"])),
     Emit(Ev("vector_operations_total", 1,
             [operation |-> "add_embeddings", status |-> "success"])),
     Emit(Ev("vector_storage_documents_total", n_documents, [db_system |-> "chromadb"])) >>

\* "except Exception as e" of add_embeddings, up to the bare raise
add_embeddings_except_body(e) ==
  << Emit(Ev("vector_errors_total", 1,
             [operation |-> "add_embeddings", error_type |-> e])),
     Emit(Ev("vector_operations_total", 1,
             [operation |-> "add_embeddings", status |-> "error"])) >>

\* similarity_search, from the return of collection.query to the return statement
similarity_search_try_body(actual_results) ==
  << Emit(Ev("vector_operation_duration_seconds", 0, [operation |-> "similarity_search"])),
     Emit(Ev("vector_operations_total", 1,
             [operation |-> "similarity_search", status |-> "success"])),
     Emit(Ev("vector_search_results_count", actual_results, [db_system |-> "chromadb"])) >>

\* "except Exception as e" of similarity_search, up to the bare raise
similarity_search_except_body(e) ==
  << Emit(Ev("vector_errors_total", 1,
             [operation |-> "similarity_search", error_type |-> e])),
     Emit(Ev("vector_operations_total", 1,
             [operation |-> "similarity_search", status |-> "error"])) >>

\* the dicts the vector operations return carry no usage, cost or eval
vector_payload ==
  [some |-> TRUE, prompt_tokens |-> 0, completion_tokens |-> 0, total_tokens |-> 0,
   cost_usd |-> 0, eval |-> NoEval]

NoPayload ==
  [some |-> FALSE, prompt_tokens |-> 0, completion_tokens |-> 0, total_tokens |-> 0,
   cost_usd |-> 0, eval |-> NoEval]

\* ------------------------------------------------------ recorder exits
\* the exception types "except Exception" can catch here
ExceptionTypes == CollaboratorErrors \cup CollectionErrors \cup {"MetricError", "AttributeError"}

\* calls[i]   an invocation of chat_completion / create_embeddings suspended
\*            at its awaited collaborator call, or Idle
\* pricing    self.pricing of the OpenAIService, read by _calculate_cost
\* collection number of documents in the ChromaDB collection
\* done       the exit of the invocation that has just left its recorder:
\*            instrument calls it made, in order, and how it left
Idle == [op |-> "idle", model |-> "", span |-> "none"]

NoDone ==
  [op |-> "none", model |-> "", arg |-> 0, usage |-> NoUsage,
   collab |-> "none", collab_err |-> "None", fault |-> "none", handler_fault |-> FALSE,
   events |-> <<>>, outcome |-> "none", raised |-> "None", raised_from |-> "none",
   payload |-> NoPayload, span |-> "none"]

\* The exit of one recorder invocation: try body, "except Exception" handler
\* with its bare raise, and the span's context manager.
\*   collab      "ok" | "error" | "cancelled": outcome of the collaborator call
\*   failAt      which instrument call of the try body raises (0: none)
\*   hFailAt     which instrument call of the handler raises (0: none)
\*   handler     the steps of the except block, for each exception type caught
RecorderExit(op, model, arg, usage, collab, collab_err, try_steps, failAt, handler, hFailAt, payload) ==
  LET t == IF collab = "ok" THEN RunBody(try_steps, failAt)
           ELSE [events |-> <<>>,
                 err |-> IF collab = "error" THEN collab_err ELSE "CancelledError",
                 site |-> "none"]
      caught == t.err # "None" /\ collab # "cancelled"
      h == IF caught THEN RunBody(handler[t.err], hFailAt)
           ELSE [events |-> <<>>, err |-> "None", site |-> "none"]
  IN  [op |-> op, model |-> model, arg |-> arg, usage |-> usage,
       collab |-> collab, collab_err |-> collab_err,
       fault |-> t.site, handler_fault |-> h.err # "None",
       events |-> t.events \o h.events,
       outcome |-> IF t.err = "None" THEN "returned" ELSE "raised",
       raised |-> IF t.err = "None" THEN "None"
                  ELSE IF h.err # "None" THEN h.err ELSE t.err,
       raised_from |-> IF t.err = "None" THEN "none"
                       ELSE IF h.err # "None" THEN "handler"
                       ELSE IF collab = "cancelled" THEN "cancel"
                       ELSE IF collab = "error" THEN "collaborator"
                       ELSE "try",
       payload |-> IF t.err = "None" THEN payload ELSE NoPayload,
       span |-> "ended"]

\* ------------------------------------ functions called outside a recorder
\* State of the helper functions when they are exercised on their own:
\* cost_calls is the log of _calculate_cost calls, eval_call the last run_eval
\* call, otlp the exporter endpoint resolution of setup_tracing/setup_metrics,
\* header_call the last _parse_otlp_headers call.
NoEvalCall == [called |-> FALSE]
NoOtlp == [resolved |-> FALSE]
NoHeaderCall == [called |-> FALSE]

helper_vars == <<cost_calls, eval_call, otlp, header_call>>

\* State of the application around the recorders (app/main.py, the meter
\* provider).  The helper functions leave it alone, and so do the recorders
\* except add_embeddings, which adds to the storage counter.
\*   pipeline         the runs of the /ai/full-pipeline route
\*   requests         the HTTP requests inside add_observability_middleware
\*   active_requests  the net value of the http_requests_active instrument
\*   storage_meter    what the meter has summed of vector_storage_documents_total
\*   meter_provider   the views and histograms of setup_metrics
MaxRuns == 2
Runs == 1..MaxRuns
NoResponse == [status_code |-> 0]
IdleRun == [pc |-> "idle", store_results |-> FALSE, results |-> <<>>, elapsed |-> 0,
            response |-> NoResponse]
NoPipeline == [r \in Runs |-> IdleRun]

MaxRequests == 3
Requests == 1..MaxRequests
NoRequests == [q \in Requests |-> [pc |-> "idle", outcome |-> "none", status_code |-> 0]]

NoStorageMeter == [vector_storage_documents_total |-> 0, documents_added |-> 0]

NoMeterProvider == [set_up |-> FALSE]

app_vars == <<pipeline, requests, active_requests, storage_meter, meter_provider>>

\* ----------------------------------------------------------------- Init
Init ==
  /\ pricing = initial_pricing
  /\ meter_provider = NoMeterProvider
  /\ storage_meter = NoStorageMeter
  /\ active_requests = 0
  /\ requests = NoRequests
  /\ pipeline = NoPipeline
  /\ calls = [i \in Slots |-> Idle]
  /\ collection = 0
  /\ done = NoDone
  /\ cost_calls = <<>>
  /\ eval_call = NoEvalCall
  /\ otlp = NoOtlp
  /\ header_call = NoHeaderCall

\* --------------------------------------------------------------- actions
\* chat_completion up to "await self.client.chat.completions.create(...)"
chat_completion_begin(i, model_arg) ==
  /\ calls[i].op = "idle"
  /\ calls' = [calls EXCEPT ![i] =
                 [op |-> "chat",
                  model |-> IF model_arg = "" THEN default_model ELSE model_arg,
                  span |-> "open"]]
  /\ UNCHANGED <<collection, done>>
  /\ UNCHANGED helper_vars
  /\ UNCHANGED pricing
  /\ UNCHANGED app_vars

\* the collaborator answers: rest of the try block, return
chat_completion_return(i, completion, usage, failAt, hFailAt) ==
  LET model == calls[i].model
      body == chat_try_body(model, completion, usage)
  IN  /\ calls[i].op = "chat"
      /\ done = NoDone
      /\ failAt \in FaultSites(body)
      /\ hFailAt \in (IF RunBody(body, failAt).err = "None" THEN {0}
                      ELSE FaultSites(chat_except_body(model, "MetricError")))
      /\ done' = RecorderExit("chat", model, 0, usage, "ok", "None", body, failAt,
                              [x \in ExceptionTypes |-> chat_except_body(model, x)], hFailAt,
                              chat_payload(model, completion, usage))
      /\ calls' = [calls EXCEPT ![i] = Idle]
      /\ UNCHANGED collection
      /\ UNCHANGED helper_vars
      /\ UNCHANGED pricing
      /\ UNCHANGED app_vars

\* the collaborator raises e: except block, re-raise
chat_completion_fail(i, e, hFailAt) ==
  LET model == calls[i].model
  IN  /\ calls[i].op = "chat"
      /\ done = NoDone
      /\ hFailAt \in FaultSites(chat_except_body(model, e))
      /\ done' = RecorderExit("chat", model, 0, NoUsage, "error", e, << >>, 0,
                              [x \in ExceptionTypes |-> chat_except_body(model, x)], hFailAt, NoPayload)
      /\ calls' = [calls EXCEPT ![i] = Idle]
      /\ UNCHANGED collection
      /\ UNCHANGED helper_vars
      /\ UNCHANGED pricing
      /\ UNCHANGED app_vars

\* the task is cancelled while it awaits the collaborator
chat_completion_cancel(i) ==
  LET model == calls[i].model
  IN  /\ calls[i].op = "chat"
      /\ done = NoDone
      /\ done' = RecorderExit("chat", model, 0, NoUsage, "cancelled", "None", << >>, 0,
                              [x \in ExceptionTypes |-> chat_except_body(model, x)], 0, NoPayload)
      /\ calls' = [calls EXCEPT ![i] = Idle]
      /\ UNCHANGED collection
      /\ UNCHANGED helper_vars
      /\ UNCHANGED pricing
      /\ UNCHANGED app_vars

\* create_embeddings up to "await self.client.embeddings.create(...)"
create_embeddings_begin(i, model_arg) ==
  /\ calls[i].op = "idle"
  /\ calls' = [calls EXCEPT ![i] =
                 [op |-> "embeddings",
                  model |-> IF model_arg = "" THEN embedding_model ELSE model_arg,
                  span |-> "open"]]
  /\ UNCHANGED <<collection, done>>
  /\ UNCHANGED helper_vars
  /\ UNCHANGED pricing
  /\ UNCHANGED app_vars

create_embeddings_return(i, usage, failAt, hFailAt) ==
  LET model == calls[i].model
      body == embeddings_try_body(model, usage)
  IN  /\ calls[i].op = "embeddings"
      /\ done = NoDone
      /\ failAt \in FaultSites(body)
      /\ hFailAt \in (IF RunBody(body, failAt).err = "None" THEN {0}
                      ELSE FaultSites(embeddings_except_body(model, "MetricError")))
      /\ done' = RecorderExit("embeddings", model, 0, usage, "ok", "None", body, failAt,
                              [x \in ExceptionTypes |-> embeddings_except_body(model, x)], hFailAt,
                              embeddings_payload(model, usage))
      /\ calls' = [calls EXCEPT ![i] = Idle]
      /\ UNCHANGED collection
      /\ UNCHANGED helper_vars
      /\ UNCHANGED pricing
      /\ UNCHANGED app_vars

create_embeddings_fail(i, e, hFailAt) ==
  LET model == calls[i].model
  IN  /\ calls[i].op = "embeddings"
      /\ done = NoDone
      /\ hFailAt \in FaultSites(embeddings_except_body(model, e))
      /\ done' = RecorderExit("embeddings", model, 0, NoUsage, "error", e, << >>, 0,
                              [x \in ExceptionTypes |-> embeddings_except_body(model, x)], hFailAt, NoPayload)
      /\ calls' = [calls EXCEPT ![i] = Idle]
      /\ UNCHANGED collection
      /\ UNCHANGED helper_vars
      /\ UNCHANGED pricing
      /\ UNCHANGED app_vars

create_embeddings_cancel(i) ==
  LET model == calls[i].model
  IN  /\ calls[i].op = "embeddings"
      /\ done = NoDone
      /\ done' = RecorderExit("embeddings", model, 0, NoUsage, "cancelled", "None", << >>, 0,
                              [x \in ExceptionTypes |-> embeddings_except_body(model, x)], 0, NoPayload)
      /\ calls' = [calls EXCEPT ![i] = Idle]
      /\ UNCHANGED collection
      /\ UNCHANGED helper_vars
      /\ UNCHANGED pricing
      /\ UNCHANGED app_vars

\* the sum of the values one exit added to the instrument called name
added_to(events, name) ==
  LET sum[i \in 0..Len(events)] ==
        IF i = 0 THEN 0
        ELSE sum[i - 1] + (IF events[i].name = name THEN events[i].value ELSE 0)
  IN  sum[Len(events)]

\* add_embeddings has no await: one atomic step.  collection.add stores the
\* documents, or raises e and stores nothing.  After it, collection.count()
\* is read inside the same try block: count_err is what it raises ("None":
\* it returns), with the documents already stored.  The meter takes in what
\* vector_storage_size.add was given, within the call; documents_added sums
\* len(documents) over the add_embeddings calls that returned.
add_embeddings_ok(n_documents, count_err, failAt, hFailAt) ==
  LET body == IF count_err = "None" THEN add_embeddings_try_body(n_documents)
              ELSE <<Raise(count_err)>> \o add_embeddings_try_body(n_documents)
  IN  /\ done = NoDone
      /\ collection + n_documents <= MaxDocs
      /\ failAt \in FaultSites(body)
      /\ hFailAt \in (IF RunBody(body, failAt).err = "None" THEN {0}
                      ELSE FaultSites(add_embeddings_except_body("MetricError")))
      /\ collection' = collection + n_documents
      /\ done' = RecorderExit("add_embeddings", "", n_documents, NoUsage, "ok", "None",
                              body, failAt, [x \in ExceptionTypes |-> add_embeddings_except_body(x)], hFailAt,
                              vector_payload)
      /\ storage_meter' =
           [vector_storage_documents_total |->
              storage_meter.vector_storage_documents_total
              + added_to(done'.events, "vector_storage_documents_total"),
            documents_added |->
              storage_meter.documents_added
              + (IF done'.outcome = "returned" THEN n_documents ELSE 0)]
      /\ UNCHANGED calls
      /\ UNCHANGED helper_vars
      /\ UNCHANGED pricing
      /\ UNCHANGED <<pipeline, requests, active_requests, meter_provider>>

add_embeddings_fail(n_documents, e, hFailAt) ==
  /\ done = NoDone
  /\ hFailAt \in FaultSites(add_embeddings_except_body(e))
  /\ done' = RecorderExit("add_embeddings", "", n_documents, NoUsage, "error", e,
                          << >>, 0, [x \in ExceptionTypes |-> add_embeddings_except_body(x)], hFailAt, NoPayload)
  /\ UNCHANGED <<calls, collection>>
  /\ UNCHANGED helper_vars
  /\ UNCHANGED pricing
  /\ UNCHANGED app_vars

\* similarity_search has no await: one atomic step
similarity_search_ok(n_results, failAt, hFailAt) ==
  LET actual_results == IF n_results <= collection THEN n_results ELSE collection
      body == similarity_search_try_body(actual_results)
  IN  /\ done = NoDone
      /\ failAt \in FaultSites(body)
      /\ hFailAt \in (IF RunBody(body, failAt).err = "None" THEN {0}
                      ELSE FaultSites(similarity_search_except_body("MetricError")))
      /\ done' = RecorderExit("similarity_search", "", n_results, NoUsage, "ok", "None",
                              body, failAt, [x \in ExceptionTypes |-> similarity_search_except_body(x)], hFailAt,
                              vector_payload)
      /\ UNCHANGED <<calls, collection>>
      /\ UNCHANGED helper_vars
      /\ UNCHANGED pricing
      /\ UNCHANGED app_vars

similarity_search_fail(n_results, e, hFailAt) ==
  /\ done = NoDone
  /\ hFailAt \in FaultSites(similarity_search_except_body(e))
  /\ done' = RecorderExit("similarity_search", "", n_results, NoUsage, "error", e,
                          << >>, 0, [x \in ExceptionTypes |-> similarity_search_except_body(x)], hFailAt, NoPayload)
  /\ UNCHANGED <<calls, collection>>
  /\ UNCHANGED helper_vars
  /\ UNCHANGED pricing
  /\ UNCHANGED app_vars

\* The awaiting caller (the route handlers of app/main.py) resumes with the
\* returned dict or the raised exception.  done is the exit being handed
\* over; the event loop hands over one exit at a time.
exit_delivered ==
  /\ done # NoDone
  /\ done' = NoDone
  /\ UNCHANGED <<calls, collection>>
  /\ UNCHANGED helper_vars
  /\ UNCHANGED pricing
  /\ UNCHANGED app_vars

\* largest number of instrument calls in one try body (that of
\* chat_completion: the duration, the token usage histogram, the six
\* counters, the time per output token and the eval) and in one handler
MaxFaultSite ==
  8 + Len(chat_token_usage(default_model, 1, 1))
    + Len(run_eval_steps(NoneText, Prompt, NoUserId, "openai", "chat", default_model))
MaxHandlerSite == Len(add_embeddings_except_body("None"))

\* Every exit of a recorder waits for done = NoDone (one exit is handed over
\* at a time); the guard is stated before the fault sites are drawn.
Next ==
  \/ \E i \in Slots, m \in ModelArgs : chat_completion_begin(i, m)
  \/ done = NoDone /\ \E i \in Slots, c \in Completions, u \in ChatUsages, f \in 0..MaxFaultSite, h \in 0..MaxHandlerSite :
       chat_completion_return(i, c, u, f, h)
  \/ done = NoDone /\ \E i \in Slots, e \in CollaboratorErrors, h \in 0..MaxHandlerSite : chat_completion_fail(i, e, h)
  \/ \E i \in Slots : chat_completion_cancel(i)
  \/ \E i \in Slots, m \in ModelArgs : create_embeddings_begin(i, m)
  \/ done = NoDone /\ \E i \in Slots, u \in EmbeddingUsages, f \in 0..MaxFaultSite, h \in 0..MaxHandlerSite :
       create_embeddings_return(i, u, f, h)
  \/ done = NoDone /\ \E i \in Slots, e \in CollaboratorErrors, h \in 0..MaxHandlerSite : create_embeddings_fail(i, e, h)
  \/ \E i \in Slots : create_embeddings_cancel(i)
  \/ done = NoDone /\ \E n \in 1..MaxDocs, c \in {"None"} \cup CollectionErrors, f \in 0..MaxFaultSite, h \in 0..MaxHandlerSite :
       add_embeddings_ok(n, c, f, h)
  \/ done = NoDone /\ \E n \in 0..MaxDocs, e \in CollectionErrors, h \in 0..MaxHandlerSite : add_embeddings_fail(n, e, h)
  \/ done = NoDone /\ \E n \in 1..MaxDocs, f \in 0..MaxFaultSite, h \in 0..MaxHandlerSite : similarity_search_ok(n, f, h)
  \/ done = NoDone /\ \E n \in 1..MaxDocs, e \in CollectionErrors, h \in 0..MaxHandlerSite : similarity_search_fail(n, e, h)
  \/ exit_delivered

Spec == Init /\ [][Next]_vars

\* The same program when no instrument call ever raises (the OpenTelemetry
\* API contract): failAt and hFailAt are always 0.
NextReliable ==
  \/ \E i \in Slots, m \in ModelArgs : chat_completion_begin(i, m)
  \/ \E i \in Slots, c \in Completions, u \in ChatUsages : chat_completion_return(i, c, u, 0, 0)
  \/ \E i \in Slots, e \in CollaboratorErrors : chat_completion_fail(i, e, 0)
  \/ \E i \in Slots : chat_completion_cancel(i)
  \/ \E i \in Slots, m \in ModelArgs : create_embeddings_begin(i, m)
  \/ \E i \in Slots, u \in EmbeddingUsages : create_embeddings_return(i, u, 0, 0)
  \/ \E i \in Slots, e \in CollaboratorErrors : create_embeddings_fail(i, e, 0)
  \/ \E i \in Slots : create_embeddings_cancel(i)
  \/ \E n \in 1..MaxDocs, c \in {"None"} \cup CollectionErrors : add_embeddings_ok(n, c, 0, 0)
  \/ \E n \in 0..MaxDocs, e \in CollectionErrors : add_embeddings_fail(n, e, 0)
  \/ \E n \in 1..MaxDocs : similarity_search_ok(n, 0, 0)
  \/ \E n \in 1..MaxDocs, e \in CollectionErrors : similarity_search_fail(n, e, 0)
  \/ exit_delivered

SpecReliable == Init /\ [][NextReliable]_vars

\* -------------------------------------------- _calculate_cost on its own
MaxCostCalls == 2
CostModels == DOMAIN initial_pricing \cup {"ft-custom"}
CostTokenCounts == TokenCounts \cup {1000}

\* one direct call self._calculate_cost(model, input_tokens, output_tokens),
\* logged with its arguments and the value it returned
calculate_cost_call(model, input_tokens, output_tokens) ==
  /\ Len(cost_calls) < MaxCostCalls
  /\ cost_calls' = Append(cost_calls,
                          [model |-> model, input_tokens |-> input_tokens,
                           output_tokens |-> output_tokens,
                           cost |-> calculate_cost(model, input_tokens, output_tokens)])
  /\ UNCHANGED <<calls, collection, done, eval_call, otlp, header_call>>
  /\ UNCHANGED pricing
  /\ UNCHANGED app_vars

\* _calculate_cost calls interleaved with the operations of the same
\* service, chat_completion and create_embeddings
NextCost ==
  \/ \E m \in CostModels, it \in CostTokenCounts, ot \in CostTokenCounts :
       calculate_cost_call(m, it, ot)
  \/ chat_completion_begin(1, "")
  \/ chat_completion_return(1, NoneText, MkUsage(MaxTokens, MaxTokens), 0, 0)
  \/ create_embeddings_begin(1, "")
  \/ create_embeddings_return(1, MkUsage(MaxTokens, 0), 0, 0)
  \/ exit_delivered

SpecCost == Init /\ [][NextCost]_vars

\* --------------------------------------------------- run_eval on its own
MaxOutputLen == 3
MaxReferenceLen == 2
TextChars == {"a", "A", " ", "\t"}

\* every string over TextChars of length at most n
TextsUpTo(n) == UNION {[1..k -> TextChars] : k \in 0..n}

\* tails that take an output past the 10-character mark: one long word, and
\* six one-letter words
SolidTail == [i \in 1..10 |-> "a"]
WordsTail == [i \in 1..11 |-> IF i % 2 = 1 THEN "a" ELSE " "]

EvalOutputs ==
  {NoneText} \cup {SomeText(b \o t) : b \in TextsUpTo(MaxOutputLen),
                                      t \in {<<>>, SolidTail, WordsTail}}
EvalReferences == {NoneText} \cup {SomeText(r) : r \in TextsUpTo(MaxReferenceLen)}
UserIds == {NoUserId, "u1"}

\* the arguments of a run_eval call that has not been made yet
EvalArgs(model_output, reference_input, user_id) ==
  [called |-> FALSE, model_output |-> model_output, reference_input |-> reference_input,
   user_id |-> user_id, system |-> "openai", operation |-> "chat", model |-> default_model]

InitEval ==
  /\ pricing = initial_pricing
  /\ meter_provider = NoMeterProvider
  /\ storage_meter = NoStorageMeter
  /\ active_requests = 0
  /\ requests = NoRequests
  /\ pipeline = NoPipeline
  /\ calls = [i \in Slots |-> Idle]
  /\ collection = 0
  /\ done = NoDone
  /\ cost_calls = <<>>
  /\ \E o \in EvalOutputs, u \in UserIds :
       \E r \in EvalReferences \cup {o} : eval_call = EvalArgs(o, r, u)
  /\ otlp = NoOtlp
  /\ header_call = NoHeaderCall

\* run_eval(model_output, reference_input, user_id=..., system=..., operation=...,
\* model=...): the instrument calls made and the dict returned
run_eval ==
  /\ ~eval_call.called
  /\ eval_call' =
       [eval_call EXCEPT
          !.called = TRUE] @@
       [result |-> eval_result(eval_call.model_output, eval_call.reference_input),
        events |-> RunBody(run_eval_steps(eval_call.model_output, eval_call.reference_input,
                                          eval_call.user_id, eval_call.system,
                                          eval_call.operation, eval_call.model), 0).events]
  /\ UNCHANGED <<calls, collection, done, cost_calls, otlp, header_call>>
  /\ UNCHANGED pricing
  /\ UNCHANGED app_vars

NextEval == run_eval

SpecEval == InitEval /\ [][NextEval]_vars

\* ------------------------------------------ OTLP endpoint resolution
HttpScheme == <<"http", ":", "/", "/">>
HttpsScheme == <<"https", ":", "/", "/">>

\* _choose_otlp_mode(endpoint, explicit_protocol)
choose_otlp_mode(endpoint, explicit_protocol) ==
  LET proto == IF explicit_protocol.some /\ explicit_protocol.val # <<>>
                 THEN Lower(Strip(explicit_protocol.val)) ELSE <<"">>
      ep == Lower(endpoint)
  IN  IF proto = <<"grpc">> THEN "grpc"
      ELSE IF proto \in {<<"http">>, <<"http", "/", "protobuf">>,
                         <<"http", "_", "json">>, <<"http", "/", "json">>} THEN "http"
      ELSE IF Contains(ep, <<"/", "otlp">>) \/ Contains(ep, <<"/", "v1", "/">>) THEN "http"
      ELSE "grpc"

\* the longest prefix of s without "/": what [^/]* matches at the start of s
NonSlashPrefix(s) ==
  LET slashes == {i \in 1..Len(s) : s[i] = "/"}
  IN  IF slashes = {} THEN s
      ELSE SubSeq(s, 1, (CHOOSE i \in slashes : \A j \in slashes : i <= j) - 1)

\* re.match(r"^(?P<scheme>https?://)?(?P<hostport>[^/]+)", endpoint): the
\* matched scheme + hostport, or the endpoint itself when nothing matches
grpc_hostport(endpoint) ==
  LET scheme == IF StartsWith(endpoint, HttpScheme) THEN HttpScheme
                ELSE IF StartsWith(endpoint, HttpsScheme) THEN HttpsScheme
                ELSE <<>>
      rest == SubSeq(endpoint, Len(scheme) + 1, Len(endpoint))
  IN  IF scheme # <<>> /\ NonSlashPrefix(rest) # <<>> THEN scheme \o NonSlashPrefix(rest)
      ELSE IF NonSlashPrefix(endpoint) # <<>> THEN NonSlashPrefix(endpoint)
      ELSE endpoint

\* _normalize_endpoints_for_mode(endpoint, mode)
normalize_endpoints_for_mode(endpoint, mode) ==
  IF mode = "http"
    THEN LET stripped == RStripChars(endpoint, {"/"})
             base == IF /\ ~EndsWith(stripped, <<"/", "otlp">>)
                        /\ ~EndsWith(stripped, <<"/", "v1">>)
                        /\ ~Contains(stripped, <<"/", "v1", "/">>)
                       THEN stripped \o <<"/", "otlp">> ELSE stripped
         IN  [traces |-> base \o <<"/", "v1", "/", "traces">>,
              metrics |-> base \o <<"/", "v1", "/", "metrics">>]
    ELSE [traces |-> grpc_hostport(endpoint), metrics |-> grpc_hostport(endpoint)]

\* values of OTEL_EXPORTER_OTLP_ENDPOINT: an optional scheme (http or https,
\* http in upper case, or a scheme the regex does not know), a host with or
\* without a port, and a path that is empty or starts with "/"
MaxPathLen == 4
Schemes == {<<>>, HttpScheme, HttpsScheme, <<"HTTP", ":", "/", "/">>,
            <<"ftp", ":", "/", "/">>}
Hosts == {<<"h">>, <<"otlp">>, <<"h", ":", "4317">>}
PathUnits == {"/", "otlp", "OTLP", "v1", "x", "traces"}
Paths == {<<>>} \cup
         {<<"/">> \o t : t \in UNION {[1..k -> PathUnits] : k \in 0..(MaxPathLen - 1)}}
Endpoints == {sc \o h \o pa : sc \in Schemes, h \in Hosts, pa \in Paths}

\* values of OTEL_EXPORTER_OTLP_PROTOCOL (NoneText: not set)
ExplicitProtocols ==
  {NoneText} \cup
  {SomeText(v) : v \in {<<>>, <<"grpc">>, <<" ", "GRPC", "\t">>, <<"http">>,
                        <<"HTTP", "/", "protobuf">>, <<"http", "_", "json">>,
                        <<" ", "http", "/", "json">>, <<"http", "/", "x">>, <<"x">>}}

InitResolve ==
  /\ pricing = initial_pricing
  /\ meter_provider = NoMeterProvider
  /\ storage_meter = NoStorageMeter
  /\ active_requests = 0
  /\ requests = NoRequests
  /\ pipeline = NoPipeline
  /\ calls = [i \in Slots |-> Idle]
  /\ collection = 0
  /\ done = NoDone
  /\ cost_calls = <<>>
  /\ eval_call = NoEvalCall
  /\ otlp \in {[resolved |-> FALSE, endpoint |-> e, explicit_protocol |-> pr] :
                 e \in Endpoints, pr \in ExplicitProtocols}
  /\ header_call = NoHeaderCall

\* setup_tracing / setup_metrics with an endpoint configured: choose the
\* mode, then derive the traces and the metrics endpoint
resolve_endpoints ==
  /\ ~otlp.resolved
  /\ LET mode == choose_otlp_mode(otlp.endpoint, otlp.explicit_protocol)
         eps == normalize_endpoints_for_mode(otlp.endpoint, mode)
     IN  otlp' = [resolved |-> TRUE, endpoint |-> otlp.endpoint,
                  explicit_protocol |-> otlp.explicit_protocol,
                  mode |-> mode, traces |-> eps.traces, metrics |-> eps.metrics]
  /\ UNCHANGED <<calls, collection, done, cost_calls, eval_call, header_call>>
  /\ UNCHANGED pricing
  /\ UNCHANGED app_vars

NextResolve == resolve_endpoints

SpecResolve == InitResolve /\ [][NextResolve]_vars

\* ------------------------------------------------- _parse_otlp_headers
Quotes == {"'", "\""}

\* s.split(sep): the pieces between the occurrences of sep, empty ones included
RECURSIVE SplitOn(_, _)
SplitOn(s, sep) ==
  LET at == {i \in 1..Len(s) : s[i] = sep}
  IN  IF at = {} THEN <<s>>
      ELSE LET i == CHOOSE i \in at : \A j \in at : i <= j
           IN  <<SubSeq(s, 1, i - 1)>> \o SplitOn(SubSeq(s, i + 1, Len(s)), sep)

\* base64.b64encode(s.encode("utf-8")).decode("utf-8"), unit by unit: an
\* injective code whose output has no ":" and no unit of the input alphabet
Base64Unit(c) ==
  CASE c = "u" -> "dQ"
    [] c = ":" -> "Og"
    [] c = " " -> "IA"
    [] c = "\t" -> "CQ"
    [] c = "'" -> "Jw"
    [] c = "Basic" -> "QmFzaWM"
    [] c = "Bearer" -> "QmVhcmVy"
    [] OTHER -> "b64"
Base64(s) == [i \in 1..Len(s) |-> Base64Unit(s[i])]

EmptyHeaders == [k \in {} |-> <<>>]

\* variant of authorization_value that also encodes a Bearer token with a colon
authorization_value_any_colon(k, v) ==
  IF Lower(k) = <<"authorization">>
    THEN IF StartsWith(Lower(v), <<"basic", " ">>)
           THEN LET creds == Strip(SubSeq(v, 3, Len(v)))
                IN  IF Contains(creds, <<":">>) THEN <<"Basic", " ">> \o Base64(creds) ELSE v
         ELSE IF Contains(v, <<":">>)
           THEN <<"Basic", " ">> \o Base64(v)
         ELSE v
    ELSE v

\* the value stored for key k whose trimmed value is v: the Authorization
\* auto-fixes of _parse_otlp_headers
authorization_value(k, v) ==
  IF Lower(k) = <<"authorization">>
    THEN IF StartsWith(Lower(v), <<"basic", " ">>)
           THEN LET creds == Strip(SubSeq(v, 3, Len(v)))
                IN  IF Contains(creds, <<":">>) THEN <<"Basic", " ">> \o Base64(creds) ELSE v
         ELSE IF /\ Contains(v, <<":">>)
                 /\ ~StartsWith(Lower(v), <<"bearer", " ">>)
                 /\ ~StartsWith(Lower(v), <<"basic", " ">>)
           THEN <<"Basic", " ">> \o Base64(v)
         ELSE v
    ELSE v

\* a lone surrogate, as os.getenv yields for an undecodable byte of the
\* environment: s.encode("utf-8") raises UnicodeEncodeError on it
Surrogate == "\\udc80"
EncodeRaises(s) == \E i \in 1..Len(s) : s[i] = Surrogate

\* whether the Authorization auto-fixes raise for key k and trimmed value v:
\* they do where they encode a string that holds a lone surrogate
authorization_raises(k, v) ==
  IF Lower(k) = <<"authorization">>
    THEN IF StartsWith(Lower(v), <<"basic", " ">>)
           THEN LET creds == Strip(SubSeq(v, 3, Len(v)))
                IN  Contains(creds, <<":">>) /\ EncodeRaises(creds)
         ELSE /\ Contains(v, <<":">>)
              /\ ~StartsWith(Lower(v), <<"bearer", " ">>)
              /\ ~StartsWith(Lower(v), <<"basic", " ">>)
              /\ EncodeRaises(v)
    ELSE FALSE

\* the loop over the parts of the header string: whether it raised, and the
\* headers dict as the loop left it
RECURSIVE parse_parts(_, _)
parse_parts(parts, headers) ==
  IF parts = <<>> THEN [raised |-> FALSE, headers |-> headers]
  ELSE LET part == Strip(Head(parts))
           eqs == {i \in 1..Len(part) : part[i] = "="}
       IN  IF eqs = {} THEN parse_parts(Tail(parts), headers)
           ELSE LET i == CHOOSE i \in eqs : \A j \in eqs : i <= j
                    k == Strip(SubSeq(part, 1, i - 1))
                    v == StripChars(Strip(SubSeq(part, i + 1, Len(part))), Quotes)
                IN  IF authorization_raises(k, v)
                      THEN [raised |-> TRUE, headers |-> headers]
                      ELSE parse_parts(Tail(parts),
                                       (k :> authorization_value(k, v)) @@ headers)

\* variant of _parse_otlp_headers whose handler returns the headers parsed
\* before the exception
parse_otlp_headers_keep_parsed(otlp_headers) ==
  IF ~otlp_headers.some \/ otlp_headers.val = <<>> THEN EmptyHeaders
  ELSE parse_parts(SplitOn(StripChars(Strip(otlp_headers.val), Quotes), ","),
                   EmptyHeaders).headers

\* _parse_otlp_headers(otlp_headers)
parse_otlp_headers(otlp_headers) ==
  IF ~otlp_headers.some \/ otlp_headers.val = <<>> THEN EmptyHeaders
  ELSE LET body == parse_parts(SplitOn(StripChars(Strip(otlp_headers.val), Quotes), ","),
                               EmptyHeaders)
       IN  IF body.raised THEN EmptyHeaders ELSE body.headers

\* values of OTEL_EXPORTER_OTLP_HEADERS: key=value, alone or followed by a
\* second pair or by a part that is not a pair
MaxValueLen == 4
HeaderKeys == {<<"Authorization">>, <<"X">>}
ValueUnits == {"Basic", "Bearer", " ", "u", ":", "'"}
HeaderValues == UNION {[1..n -> ValueUnits] : n \in 0..MaxValueLen}
HeaderTails == {<<>>, <<",", "Y", "=", "u", ":", "u">>, <<",", " ", "u">>}

HeaderArgs(key, value, rest) ==
  [called |-> FALSE, key |-> key, value |-> value, rest |-> rest,
   otlp_headers |-> SomeText(key \o <<"=">> \o value \o rest)]

InitHeaders ==
  /\ pricing = initial_pricing
  /\ meter_provider = NoMeterProvider
  /\ storage_meter = NoStorageMeter
  /\ active_requests = 0
  /\ requests = NoRequests
  /\ pipeline = NoPipeline
  /\ calls = [i \in Slots |-> Idle]
  /\ collection = 0
  /\ done = NoDone
  /\ cost_calls = <<>>
  /\ eval_call = NoEvalCall
  /\ otlp = NoOtlp
  /\ header_call \in {HeaderArgs(k, v, t) : k \in HeaderKeys, v \in HeaderValues,
                                              t \in HeaderTails}

\* headers = _parse_otlp_headers(os.getenv("OTEL_EXPORTER_OTLP_HEADERS"))
parse_headers ==
  /\ ~header_call.called
  /\ header_call' = [called |-> TRUE,
                     headers |-> parse_otlp_headers(header_call.otlp_headers)] @@ header_call
  /\ UNCHANGED <<calls, collection, done, cost_calls, eval_call, otlp>>
  /\ UNCHANGED pricing
  /\ UNCHANGED app_vars

NextHeaders == parse_headers

SpecHeaders == InitHeaders /\ [][NextHeaders]_vars

\* Any value of the variable: unset, empty, or up to MaxParts comma-separated
\* parts, among them parts without "=", blank parts and Authorization values
\* holding a lone surrogate.
MaxParts == 2
HeaderParts ==
  {<<"X", "=", "u">>, <<" ", "Y", " ", "=", " ", "u", ":", "u", " ">>, <<"u">>, <<" ">>,
   <<"Authorization", "=", "u", ":", Surrogate>>,
   <<"Authorization", "=", "Basic", " ", Surrogate>>,
   <<"Authorization", "=", "Basic", " ", "u", ":", "u">>}

RECURSIVE JoinParts(_)
JoinParts(parts) ==
  IF parts = <<>> THEN <<>>
  ELSE IF Len(parts) = 1 THEN parts[1]
  ELSE parts[1] \o <<",">> \o JoinParts(Tail(parts))

InitHeadersAny ==
  /\ pricing = initial_pricing
  /\ calls = [i \in Slots |-> Idle]
  /\ collection = 0
  /\ done = NoDone
  /\ cost_calls = <<>>
  /\ eval_call = NoEvalCall
  /\ otlp = NoOtlp
  /\ pipeline = NoPipeline
  /\ requests = NoRequests
  /\ active_requests = 0
  /\ storage_meter = NoStorageMeter
  /\ meter_provider = NoMeterProvider
  /\ \/ header_call = [called |-> FALSE, parts |-> <<>>, otlp_headers |-> NoneText]
     \/ header_call = [called |-> FALSE, parts |-> <<>>, otlp_headers |-> SomeText(<<>>)]
     \/ \E parts \in UNION {[1..n -> HeaderParts] : n \in 1..MaxParts} :
          header_call = [called |-> FALSE, parts |-> parts,
                         otlp_headers |-> SomeText(JoinParts(parts))]

SpecHeadersAny == InitHeadersAny /\ [][NextHeaders]_vars

\* ------------------------------------------- full_ai_pipeline (app/main.py)
\* A run of the /ai/full-pipeline route.  The handler awaits its steps one
\* after the other inside one try block; each await is a suspension point, so
\* a run is one atomic segment per step.
\*   pc             the step being awaited, "idle" before the request and
\*                  "responded" after it
\*   results        the entries of the results dict, in insertion order
\*   elapsed        time.time() - pipeline_start, in clock ticks
\*   response       the JSON body returned (200) or the HTTPException raised
PipelineSteps ==
  <<"chat_completion", "create_embeddings", "add_embeddings", "generate_text",
    "similarity_search">>

\* the results key under which the handler stores the dict a step returned
results_key(step) ==
  CASE step = "chat_completion" -> "openai_response"
    [] step = "create_embeddings" -> "embeddings"
    [] step = "add_embeddings" -> "vector_storage"
    [] step = "generate_text" -> "local_model_response"
    [] step = "similarity_search" -> "similarity_search"

\* variant of next_step that runs the similarity search before the local model
next_step_search_first(step, store_results) ==
  CASE step = "chat_completion" -> "create_embeddings"
    [] step = "create_embeddings" -> IF store_results THEN "add_embeddings" ELSE "similarity_search"
    [] step = "add_embeddings" -> "similarity_search"
    [] step = "similarity_search" -> "generate_text"
    [] step = "generate_text" -> "summary"

\* the await that follows the return of a step ("summary": none is left)
next_step(step, store_results) ==
  CASE step = "chat_completion" -> "create_embeddings"
    [] step = "create_embeddings" -> IF store_results THEN "add_embeddings" ELSE "generate_text"
    [] step = "add_embeddings" -> "generate_text"
    [] step = "generate_text" -> "similarity_search"
    [] step = "similarity_search" -> "summary"

\* texts_to_embed = [query, chat_result["response"]]
texts_to_embed_len == 2
\* n_results=3 of the similarity search of the pipeline
pipeline_n_results == 3

\* duration_seconds of a step, as the step measures it (one clock tick), and
\* the time that passes in a step outside that measure: both recorders take
\* the duration before they record metrics, run the eval and build the dict
step_duration == 1
Unmeasured == {0, 1}

\* the dict a step returns: cost_usd is 0 for the steps whose dict has none
StepResult(step, cost_usd, tokens, count) ==
  [step |-> step, key |-> results_key(step), cost_usd |-> cost_usd,
   duration_seconds |-> step_duration, tokens |-> tokens, count |-> count]

ResultOf(results, step) == results[CHOOSE i \in 1..Len(results) : results[i].step = step]

\* variant of pipeline_summary whose total cost leaves the embeddings out
pipeline_summary_chat_cost_only(results, store_results, total_duration) ==
  [total_duration_seconds |-> total_duration,
   total_cost_usd |-> ResultOf(results, "chat_completion").cost_usd,
   steps_completed |-> 5,
   openai_tokens_used |-> ResultOf(results, "chat_completion").tokens
                          + ResultOf(results, "create_embeddings").tokens,
   local_tokens_generated |-> ResultOf(results, "generate_text").tokens,
   documents_stored |-> IF store_results THEN texts_to_embed_len ELSE 0,
   search_results_found |-> ResultOf(results, "similarity_search").count]

\* the "summary" of the response
pipeline_summary(results, store_results, total_duration) ==
  [total_duration_seconds |-> total_duration,
   total_cost_usd |-> ResultOf(results, "chat_completion").cost_usd
                      + ResultOf(results, "create_embeddings").cost_usd,
   steps_completed |-> 5,
   openai_tokens_used |-> ResultOf(results, "chat_completion").tokens
                          + ResultOf(results, "create_embeddings").tokens,
   local_tokens_generated |-> ResultOf(results, "generate_text").tokens,
   documents_stored |-> IF store_results THEN texts_to_embed_len ELSE 0,
   search_results_found |-> ResultOf(results, "similarity_search").count]

\* a step returned its dict: it is stored in results, and the handler either
\* awaits the next step or builds the response
step_returned(run, result, unmeasured) ==
  LET results == Append(run.results, result)
      elapsed == run.elapsed + result.duration_seconds + unmeasured
      next == next_step(run.pc, run.store_results)
  IN  IF next = "summary"
        THEN [pc |-> "responded", store_results |-> run.store_results, results |-> results,
              elapsed |-> elapsed,
              response |-> [status_code |-> 200, results |-> results,
                            summary |-> pipeline_summary(results, run.store_results, elapsed)]]
        ELSE [pc |-> next, store_results |-> run.store_results, results |-> results,
              elapsed |-> elapsed, response |-> run.response]

pipeline_unchanged ==
  UNCHANGED <<calls, done, requests, active_requests, meter_provider>>

\* the request arrives; the handler runs up to the await of step 1
full_ai_pipeline_begin(r, store_results) ==
  /\ pipeline[r].pc = "idle"
  /\ pipeline' = [pipeline EXCEPT ![r] = [pc |-> "chat_completion", store_results |-> store_results,
                                          results |-> <<>>, elapsed |-> 0,
                                          response |-> NoResponse]]
  /\ UNCHANGED <<collection, storage_meter>>
  /\ pipeline_unchanged
  /\ UNCHANGED helper_vars
  /\ UNCHANGED pricing

\* step 1 returns: chat_result
pipeline_chat_returned(r, usage, unmeasured) ==
  /\ pipeline[r].pc = "chat_completion"
  /\ pipeline' = [pipeline EXCEPT ![r] =
       step_returned(@, StepResult("chat_completion",
                                   calculate_cost(default_model, usage.prompt_tokens,
                                                  usage.completion_tokens),
                                   usage.total_tokens, 0), unmeasured)]
  /\ UNCHANGED <<collection, storage_meter>>
  /\ pipeline_unchanged
  /\ UNCHANGED helper_vars
  /\ UNCHANGED pricing

\* step 2 returns: embedding_result
pipeline_embeddings_returned(r, usage, unmeasured) ==
  /\ pipeline[r].pc = "create_embeddings"
  /\ pipeline' = [pipeline EXCEPT ![r] =
       step_returned(@, StepResult("create_embeddings",
                                   calculate_cost(embedding_model, usage.total_tokens, 0),
                                   usage.total_tokens, 0), unmeasured)]
  /\ UNCHANGED <<collection, storage_meter>>
  /\ pipeline_unchanged
  /\ UNCHANGED helper_vars
  /\ UNCHANGED pricing

\* step 3 returns: the two texts are in the collection and were added to
\* vector_storage_documents_total
pipeline_storage_returned(r, unmeasured) ==
  /\ pipeline[r].pc = "add_embeddings"
  /\ collection' = collection + texts_to_embed_len
  /\ storage_meter' =
       [vector_storage_documents_total |->
          storage_meter.vector_storage_documents_total + texts_to_embed_len,
        documents_added |-> storage_meter.documents_added + texts_to_embed_len]
  /\ pipeline' = [pipeline EXCEPT ![r] =
       step_returned(@, StepResult("add_embeddings", 0, 0, texts_to_embed_len), unmeasured)]
  /\ pipeline_unchanged
  /\ UNCHANGED helper_vars
  /\ UNCHANGED pricing

\* step 4 returns: local_result, with the tokens the local model generated
pipeline_local_returned(r, completion_tokens, unmeasured) ==
  /\ pipeline[r].pc = "generate_text"
  /\ pipeline' = [pipeline EXCEPT ![r] =
       step_returned(@, StepResult("generate_text", 0, completion_tokens, 0), unmeasured)]
  /\ UNCHANGED <<collection, storage_meter>>
  /\ pipeline_unchanged
  /\ UNCHANGED helper_vars
  /\ UNCHANGED pricing

\* step 5 returns: search_result; the handler computes the totals and returns
\* the response
pipeline_search_returned(r, unmeasured) ==
  /\ pipeline[r].pc = "similarity_search"
  /\ pipeline' = [pipeline EXCEPT ![r] =
       step_returned(@, StepResult("similarity_search", 0, 0,
                                   IF pipeline_n_results <= collection
                                     THEN pipeline_n_results ELSE collection),
                     unmeasured)]
  /\ UNCHANGED <<collection, storage_meter>>
  /\ pipeline_unchanged
  /\ UNCHANGED helper_vars
  /\ UNCHANGED pricing

\* the awaited step raises an Exception: "except Exception" answers with
\* HTTPException(status_code=500, detail=str(e)), whatever the step.  stored:
\* the step is add_embeddings and it raised after collection.add had stored
\* the texts (collection.count() or a metric call raised); the storage
\* counter is not reached then
pipeline_step_raised(r, stored) ==
  /\ pipeline[r].pc \in {PipelineSteps[i] : i \in 1..Len(PipelineSteps)}
  /\ stored => pipeline[r].pc = "add_embeddings"
  /\ pipeline' = [pipeline EXCEPT ![r] =
       [pc |-> "responded", store_results |-> @.store_results, results |-> @.results,
        elapsed |-> @.elapsed, response |-> [status_code |-> 500, failed |-> @.pc]]]
  /\ collection' = IF stored THEN collection + texts_to_embed_len ELSE collection
  /\ UNCHANGED storage_meter
  /\ pipeline_unchanged
  /\ UNCHANGED helper_vars
  /\ UNCHANGED pricing

NextPipeline ==
  \/ \E r \in Runs, s \in BOOLEAN : full_ai_pipeline_begin(r, s)
  \/ \E r \in Runs, u \in {MkUsage(MaxTokens, MaxTokens)}, o \in Unmeasured : pipeline_chat_returned(r, u, o)
  \/ \E r \in Runs, u \in {MkUsage(MaxTokens, MaxTokens)}, o \in Unmeasured : pipeline_embeddings_returned(r, u, o)
  \/ \E r \in Runs, o \in Unmeasured : pipeline_storage_returned(r, o)
  \/ \E r \in Runs, o \in Unmeasured : pipeline_local_returned(r, MaxTokens, o)
  \/ \E r \in Runs, o \in Unmeasured : pipeline_search_returned(r, o)
  \/ \E r \in Runs, stored \in BOOLEAN : pipeline_step_raised(r, stored)

SpecPipeline == Init /\ [][NextPipeline]_vars

\* ------------------------------------ setup_metrics (app/observability.py)
\* The histogram views of the meter provider.  Durations are in milliseconds
\* (0.01 s = 10); token counts are plain integers.
token_usage_buckets_powers_of_two ==
  <<1, 2, 4, 8, 16, 32, 64, 128, 256, 512, 1024, 2048, 4096, 8192>>

token_usage_buckets ==
  <<1, 4, 16, 64, 256, 1024, 4096, 16384, 65536, 262144,
    1048576, 4194304, 16777216, 67108864>>

operation_duration_buckets ==
  <<10, 20, 40, 80, 160, 320, 640, 1280, 2560,
    5120, 10240, 20480, 40960, 81920>>

ttft_buckets ==
  <<1, 5, 10, 20, 40, 60, 80, 100,
    250, 500, 750, 1000, 2500, 5000, 7500, 10000>>

\* views: instrument name -> boundaries of its explicit-bucket aggregation
metric_views ==
  [name \in {"gen_ai.client.token.usage", "gen_ai.client.operation.duration",
              "gen_ai.client.time_to_first_token"} |->
     CASE name = "gen_ai.client.token.usage" -> token_usage_buckets
       [] name = "gen_ai.client.operation.duration" -> operation_duration_buckets
       [] name = "gen_ai.client.time_to_first_token" -> ttft_buckets]

\* the bucket an explicit-bucket histogram counts a value in: the first one
\* whose upper boundary is not below the value, or the overflow bucket
bucket_of(boundaries, value) ==
  Cardinality({i \in 1..Len(boundaries) : boundaries[i] < value}) + 1

\* samples recorded after the set-up, per instrument
MaxSamples == 3
HistogramSamples ==
  [name \in DOMAIN metric_views |->
     CASE name = "gen_ai.client.token.usage" -> {0, 1, 2, 5, 67108864, 67108865}
       [] name = "gen_ai.client.operation.duration" -> {0, 10, 15, 81920, 100000}
       [] name = "gen_ai.client.time_to_first_token" -> {}]

\* setup_metrics(): the views are handed to the MeterProvider
setup_metrics ==
  /\ ~meter_provider.set_up
  /\ meter_provider' =
       [set_up |-> TRUE, views |-> metric_views, samples |-> 0,
        histograms |-> [name \in DOMAIN metric_views |->
                          [b \in 1..(Len(metric_views[name]) + 1) |-> 0]]]
  /\ UNCHANGED <<calls, collection, done, pipeline, requests, active_requests, storage_meter>>
  /\ UNCHANGED helper_vars
  /\ UNCHANGED pricing

\* histogram.record(value) on an instrument the views cover
histogram_record(name, value) ==
  /\ meter_provider.set_up
  /\ meter_provider.samples < MaxSamples
  /\ meter_provider' =
       [meter_provider EXCEPT
          !.samples = @ + 1,
          !.histograms[name][bucket_of(meter_provider.views[name], value)] = @ + 1]
  /\ UNCHANGED <<calls, collection, done, pipeline, requests, active_requests, storage_meter>>
  /\ UNCHANGED helper_vars
  /\ UNCHANGED pricing

NextMetrics ==
  \/ setup_metrics
  \/ \E name \in DOMAIN metric_views : \E value \in HistogramSamples[name] :
       histogram_record(name, value)

SpecMetrics == Init /\ [][NextMetrics]_vars

\* ------------------------- add_observability_middleware (app/main.py)
\* A request is inside the middleware from active_requests.add(1) to the
\* finally block.  The only suspension point is "await call_next(request)", so
\* a request is two atomic segments: up to that await, and from its outcome to
\* the exit.
\*   requests[q].pc           "idle", "inside" (suspended at call_next), "left"
\*   requests[q].outcome      how the request left: "response", "exception"
\*                            or "cancelled"
\*   requests[q].status_code  the status_code attribute of its
\*                            http_requests_total increment (0: none)
\* variant of middleware_cancelled whose decrement is skipped as the handler is
middleware_cancelled_no_finally(q) ==
  /\ requests[q].pc = "inside"
  /\ requests' = [requests EXCEPT ![q] = [pc |-> "left", outcome |-> "cancelled",
                                          status_code |-> 0]]
  /\ UNCHANGED active_requests
  /\ UNCHANGED <<calls, collection, done, pipeline, storage_meter, meter_provider>>
  /\ UNCHANGED helper_vars
  /\ UNCHANGED pricing

\* active_requests.add(1), the span is opened, call_next is awaited
middleware_enter(q) ==
  /\ requests[q].pc = "idle"
  /\ active_requests' = active_requests + 1
  /\ requests' = [requests EXCEPT ![q] = [pc |-> "inside", outcome |-> "none",
                                          status_code |-> 0]]
  /\ UNCHANGED <<calls, collection, done, pipeline, storage_meter, meter_provider>>
  /\ UNCHANGED helper_vars
  /\ UNCHANGED pricing

\* call_next returned a response: duration and count are recorded and the
\* response is returned; if one of the two instrument calls raises (failAt
\* tells which, 0: none), the except block counts the request as a 500 and
\* re-raises.  finally: add(-1)
middleware_response(q, status_code, failAt) ==
  /\ requests[q].pc = "inside"
  /\ requests' = [requests EXCEPT ![q] =
       IF failAt = 0
         THEN [pc |-> "left", outcome |-> "response", status_code |-> status_code]
         ELSE [pc |-> "left", outcome |-> "exception", status_code |-> 500]]
  /\ active_requests' = active_requests - 1
  /\ UNCHANGED <<calls, collection, done, pipeline, storage_meter, meter_provider>>
  /\ UNCHANGED helper_vars
  /\ UNCHANGED pricing

\* call_next raised an Exception: counted as a 500, re-raised.  finally: add(-1)
middleware_exception(q) ==
  /\ requests[q].pc = "inside"
  /\ requests' = [requests EXCEPT ![q] = [pc |-> "left", outcome |-> "exception",
                                          status_code |-> 500]]
  /\ active_requests' = active_requests - 1
  /\ UNCHANGED <<calls, collection, done, pipeline, storage_meter, meter_provider>>
  /\ UNCHANGED helper_vars
  /\ UNCHANGED pricing

\* the task is cancelled at the await: CancelledError is not an Exception, the
\* except block is skipped and nothing is counted.  finally: add(-1)
middleware_cancelled(q) ==
  /\ requests[q].pc = "inside"
  /\ requests' = [requests EXCEPT ![q] = [pc |-> "left", outcome |-> "cancelled",
                                          status_code |-> 0]]
  /\ active_requests' = active_requests - 1
  /\ UNCHANGED <<calls, collection, done, pipeline, storage_meter, meter_provider>>
  /\ UNCHANGED helper_vars
  /\ UNCHANGED pricing

NextMiddleware ==
  \/ \E q \in Requests : middleware_enter(q)
  \/ \E q \in Requests, c \in {200, 500}, f \in 0..2 :
       middleware_response(q, c, f)
  \/ \E q \in Requests : middleware_exception(q)
  \/ \E q \in Requests : middleware_cancelled(q)

SpecMiddleware == Init /\ [][NextMiddleware]_vars

\* ------------------------------- the vector store and its storage counter
\* get_collection_stats has no await and no metric instrument: it reads
\* collection.count() and returns, or raises what the collection raised
get_collection_stats_ok ==
  /\ done = NoDone
  /\ done' = RecorderExit("get_collection_stats", "", collection, NoUsage, "ok", "None",
                          << >>, 0, [x \in ExceptionTypes |-> << >>], 0, vector_payload)
  /\ UNCHANGED <<calls, collection>>
  /\ UNCHANGED helper_vars
  /\ UNCHANGED pricing
  /\ UNCHANGED app_vars

get_collection_stats_fail(e) ==
  /\ done = NoDone
  /\ done' = RecorderExit("get_collection_stats", "", collection, NoUsage, "error", e,
                          << >>, 0, [x \in ExceptionTypes |-> << >>], 0, NoPayload)
  /\ UNCHANGED <<calls, collection>>
  /\ UNCHANGED helper_vars
  /\ UNCHANGED pricing
  /\ UNCHANGED app_vars

NextVector ==
  \/ \E n \in 1..MaxDocs, c \in {"None"} \cup CollectionErrors, f \in 0..MaxFaultSite, h \in 0..MaxHandlerSite :
       add_embeddings_ok(n, c, f, h)
  \/ \E n \in 0..MaxDocs, e \in CollectionErrors, h \in 0..MaxHandlerSite : add_embeddings_fail(n, e, h)
  \/ \E n \in 1..MaxDocs, f \in 0..MaxFaultSite, h \in 0..MaxHandlerSite : similarity_search_ok(n, f, h)
  \/ \E n \in 1..MaxDocs, e \in CollectionErrors, h \in 0..MaxHandlerSite : similarity_search_fail(n, e, h)
  \/ get_collection_stats_ok
  \/ \E e \in CollectionErrors : get_collection_stats_fail(e)
  \/ exit_delivered

SpecVector == Init /\ [][NextVector]_vars

\* ------------------------------------------------- reading an exit record
OpenAIOps == {"chat", "embeddings"}
VectorOps == {"add_embeddings", "similarity_search"}

\* the operation-count instrument of the service the recorder belongs to
OperationCountName(op) ==
  IF op \in OpenAIOps THEN "gen_ai.client.operation.count" ELSE "vector_operations_total"

Named(events, name) == SelectSeq(events, LAMBDA ev : ev.name = name)
OperationCounts(d) == Named(d.events, OperationCountName(d.op))
WithStatus(events, status) == SelectSeq(events, LAMBDA ev : ev.attrs.status = status)
TokenSamples(d, token_type) ==
  SelectSeq(Named(d.events, "gen_ai.client.token.usage"),
            LAMBDA ev : ev.attrs.token_type = token_type)

\* ------------------------------------------------------------------- C1
\* C1: every recorder invocation, on every exit path, has emitted exactly one
\* operation-count increment, and its status is success or error.
C1_ExactlyOneOperationCount ==
  done # NoDone =>
    /\ Len(OperationCounts(done)) = 1
    /\ OperationCounts(done)[1].attrs.status \in {"success", "error"}

\* ------------------------------------------------------------------- C2
\* C2: an invocation of chat_completion or create_embeddings cancelled while it
\* awaits the collaborator leaves with its span ended and an operation-count
\* increment tagged status=error, error_type=cancelled emitted.
C2_CancellationCounted ==
  (done.op \in OpenAIOps /\ done.collab = "cancelled") =>
    /\ done.span = "ended"
    /\ \E k \in 1..Len(OperationCounts(done)) :
         LET a == OperationCounts(done)[k].attrs
         IN  a.status = "error" /\ "error_type" \in DOMAIN a /\ a.error_type = "cancelled"

\* ------------------------------------------------------------------- C3
\* C3: when the collaborator call raises E, the invocation ends by raising that
\* same E, after the status=error operation count was emitted.
C3_CollaboratorErrorPropagates ==
  done.collab = "error" =>
    /\ done.outcome = "raised"
    /\ done.raised = done.collab_err
    /\ done.raised_from = "collaborator"
    /\ Len(WithStatus(OperationCounts(done), "error")) >= 1

\* ------------------------------------------------------------------- C4
\* C4: when the eval scorer raises in a chat_completion whose collaborator call
\* succeeded, the invocation returns its payload without an eval result,
\* raises nothing and keeps its status=success operation count.
C4_EvalFailureAbsorbed ==
  (done.op = "chat" /\ done.collab = "ok" /\ done.fault = "eval") =>
    /\ done.outcome = "returned"
    /\ done.payload.some /\ ~done.payload.eval.some
    /\ Len(WithStatus(OperationCounts(done), "error")) = 0
    /\ Len(WithStatus(OperationCounts(done), "success")) = 1

\* ------------------------------------------------------------------- C5
\* C5: when an instrument call of the recorder itself raises in an invocation
\* whose collaborator call succeeded, the invocation still returns its payload.
C5_TelemetryFailureAbsorbed ==
  (done.collab = "ok" /\ done.fault = "metric") =>
    /\ done.outcome = "returned"
    /\ done.payload.some

\* ------------------------------------------------------------------- C6
\* C6: a chat_completion or create_embeddings invocation that returns has
\* emitted exactly one duration sample, one input token sample (and for chat
\* one output token sample, for embeddings none), one cost-counter increment,
\* one cost-histogram sample and one operation count, tagged status=success.
C6_SuccessEmissions ==
  (done.op \in OpenAIOps /\ done.outcome = "returned") =>
    /\ Len(Named(done.events, "gen_ai.client.operation.duration")) = 1
    /\ Len(TokenSamples(done, "input")) = 1
    /\ Len(TokenSamples(done, "output")) = (IF done.op = "chat" THEN 1 ELSE 0)
    /\ Len(Named(done.events, "gen_ai.client.operation.cost")) = 1
    /\ Len(Named(done.events, "gen_ai.usage.cost")) = 1
    /\ Len(OperationCounts(done)) = 1
    /\ OperationCounts(done)[1].attrs.status = "success"

\* a chat completion with usage data has returned
C6_Witness ==
  /\ done.op = "chat" /\ done.outcome = "returned"
  /\ done.usage.some /\ done.usage.completion_tokens > 0

\* ------------------------------------------------------------------- C7
\* C7: every operation-count increment tagged status=error carries an
\* error_type attribute.
C7_ErrorCountHasErrorType ==
  \A k \in 1..Len(OperationCounts(done)) :
    LET a == OperationCounts(done)[k].attrs
    IN  a.status = "error" => "error_type" \in DOMAIN a

\* ------------------------------------------------------------------- C8
\* C8: a chat_completion or create_embeddings invocation whose collaborator
\* call failed or was cancelled has emitted no token-usage sample, no
\* cost-counter increment and no cost-histogram sample, and returns no payload.
C8_NoChargeOnFailure ==
  (done.op \in OpenAIOps /\ done.collab \in {"error", "cancelled"}) =>
    /\ Len(Named(done.events, "gen_ai.client.token.usage")) = 0
    /\ Len(Named(done.events, "gen_ai.client.operation.cost")) = 0
    /\ Len(Named(done.events, "gen_ai.usage.cost")) = 0
    /\ ~done.payload.some

\* a chat completion whose collaborator call raised has left through its handler
C8_Witness ==
  /\ done.op = "chat" /\ done.collab = "error"
  /\ Len(OperationCounts(done)) = 1

\* ------------------------------------------------------------------- C9
\* C9: when the response carries no usage data (and no instrument call
\* raises), the recorder returns with input, output and total tokens 0 and
\* cost 0, for chat_completion and create_embeddings alike.
C9_MissingUsageIsZero ==
  (done.op \in OpenAIOps /\ done.collab = "ok" /\ ~done.usage.some
     /\ done.fault \notin {"metric", "eval"}) =>
    /\ done.outcome = "returned"
    /\ done.payload.prompt_tokens = 0
    /\ done.payload.completion_tokens = 0
    /\ done.payload.total_tokens = 0
    /\ done.payload.cost_usd = 0

\* ------------------------------------------------------------------ C10
\* C10: for a model id that is not in the pricing table, whatever the token
\* counts, every cost the recorder emits is 0, and unless an instrument call
\* raises the operation returns with status=success and cost_usd = 0.
C10_UnknownModelCostsNothing ==
  (done.op \in OpenAIOps /\ done.model \notin DOMAIN pricing
     /\ done.collab = "ok" /\ done.usage.some) =>
    /\ \A k \in 1..Len(done.events) :
         done.events[k].name \in {"gen_ai.client.operation.cost", "gen_ai.usage.cost"}
           => done.events[k].value = 0
    /\ done.fault = "none" =>
         /\ done.outcome = "returned"
         /\ done.payload.cost_usd = 0
         /\ Len(WithStatus(OperationCounts(done), "success")) = 1
         /\ Len(OperationCounts(done)) = 1

\* a call with an unknown model and non-zero token counts has returned
C10_Witness ==
  /\ done.op \in OpenAIOps /\ done.model \notin DOMAIN pricing
  /\ done.outcome = "returned"
  /\ done.usage.some /\ done.usage.prompt_tokens > 0
  /\ Len(Named(done.events, "gen_ai.client.operation.cost")) = 1

\* ------------------------------------------------------------------ C11
\* C11: in every state self.pricing is the table __init__ assigned (no
\* operation changes it); for every model id of the table a _calculate_cost
\* call returns (input_tokens / 1000) * input rate + (output_tokens / 1000)
\* * output rate with that table's per-1K rates; and two calls with the same
\* arguments return the same value, whatever the service did in between.
C11_CostIsTableFormula ==
  /\ pricing = initial_pricing
  /\ \A k \in 1..Len(cost_calls) :
       LET c == cost_calls[k]
       IN  /\ c.model \in DOMAIN initial_pricing =>
                1000 * c.cost = c.input_tokens * (1000 * initial_pricing[c.model].input)
                                + c.output_tokens * (1000 * initial_pricing[c.model].output)
           /\ \A j \in 1..Len(cost_calls) :
                (/\ cost_calls[j].model = c.model
                 /\ cost_calls[j].input_tokens = c.input_tokens
                 /\ cost_calls[j].output_tokens = c.output_tokens)
                => cost_calls[j].cost = c.cost

\* the same priced call made twice, and a chat completion of the same
\* service that has read the table for its own cost and returned
C11_Witness ==
  /\ Len(cost_calls) = 2
  /\ cost_calls[1].model = "gpt-4"
  /\ cost_calls[1].input_tokens = MaxTokens
  /\ cost_calls[1].output_tokens = 1000
  /\ cost_calls[1].cost = MaxTokens * 300 + 1000 * 600
  /\ cost_calls[2].model = cost_calls[1].model
  /\ cost_calls[2].input_tokens = cost_calls[1].input_tokens
  /\ cost_calls[2].output_tokens = cost_calls[1].output_tokens
  /\ cost_calls[2].cost = cost_calls[1].cost
  /\ done.op = "chat" /\ done.outcome = "returned"
  /\ done.payload.cost_usd = MaxTokens * 100 + MaxTokens * 300

\* ------------------------------------------------------------------ C12
\* C12: for every model id, in the table or not, and non-negative token
\* counts, the cost is non-negative and does not decrease when either token
\* count grows.
C12_CostMonotone ==
  \A j \in 1..Len(cost_calls), k \in 1..Len(cost_calls) :
    /\ cost_calls[j].cost >= 0
    /\ (/\ cost_calls[j].model = cost_calls[k].model
        /\ cost_calls[j].input_tokens <= cost_calls[k].input_tokens
        /\ cost_calls[j].output_tokens <= cost_calls[k].output_tokens)
       => cost_calls[j].cost <= cost_calls[k].cost

\* two calls for one model where only the prompt grew, and the cost with it
C12_Witness ==
  /\ Len(cost_calls) = 2
  /\ cost_calls[1].model = cost_calls[2].model
  /\ cost_calls[1].output_tokens = cost_calls[2].output_tokens
  /\ cost_calls[1].input_tokens < cost_calls[2].input_tokens
  /\ cost_calls[1].cost < cost_calls[2].cost

\* ------------------------------------------------------------------ C13
\* C13: for every output/reference pair, the score run_eval returns is the
\* number of true criteria divided by 5 and lies in [0, 1]; passed is true
\* exactly when at least 3 of the 5 criteria are true; with all five true
\* the score is 1.0 and the eval passes.
C13_ScoreIsCriteriaShare ==
  eval_call.called =>
    LET c == eval_call.result.criteria
        n == BoolCount(<<c.has_content, c.reasonable_length, c.not_just_input,
                         c.has_spaces, c.not_gibberish>>)
    IN  /\ 5 * eval_call.result.score = 100 * n
        /\ eval_call.result.score \in 0..100
        /\ eval_call.result.passed <=> n >= 3
        /\ n = 5 => (eval_call.result.score = 100 /\ eval_call.result.passed)

\* an eval that passes with exactly three criteria true (score 0.6)
C13_Witness ==
  /\ eval_call.called
  /\ eval_call.result.score = 60
  /\ eval_call.result.passed

\* ------------------------------------------------------------------ C14
\* C14: an empty model output scores 0 against any reference, with all five
\* criteria false and passed false.
C14_EmptyOutputScoresZero ==
  (/\ eval_call.called
   /\ (~eval_call.model_output.some \/ eval_call.model_output.val = <<>>))
  => /\ eval_call.result.score = 0
     /\ ~eval_call.result.passed
     /\ \A f \in DOMAIN eval_call.result.criteria : ~eval_call.result.criteria[f]

\* ------------------------------------------------------------------ C15
\* C15 as stated: the criteria are computed on the strings as given:
\* has_content iff the output is non-empty, reasonable_length iff it has more
\* than 10 characters, not_just_input iff it differs from the reference
\* ignoring case, has_spaces iff it contains a whitespace character of any
\* kind at any position, not_gibberish iff it has more than two
\* whitespace-delimited tokens.
C15_CriteriaOnGivenStrings ==
  eval_call.called =>
    LET o == IF eval_call.model_output.some THEN eval_call.model_output.val ELSE <<>>
        r == IF eval_call.reference_input.some THEN eval_call.reference_input.val ELSE <<>>
        c == eval_call.result.criteria
    IN  /\ c.has_content <=> Len(o) > 0
        /\ c.reasonable_length <=> Len(o) > 10
        /\ c.not_just_input <=> Lower(o) # Lower(r)
        /\ c.has_spaces <=> \E i \in 1..Len(o) : o[i] \in Whitespace
        /\ c.not_gibberish <=> SplitCount(o) > 2

\* C15 amended: the criteria are computed after leading and trailing
\* whitespace is removed from both strings (None counts as empty):
\* has_content iff the output has a non-whitespace character,
\* reasonable_length iff its first and last non-whitespace characters are
\* more than 10 positions apart counting both, not_just_input iff the
\* trimmed strings differ ignoring case, has_spaces iff a space character
\* (U+0020, no other whitespace) stands between two non-whitespace
\* characters, not_gibberish iff the output has more than two
\* whitespace-delimited tokens.
C15_CriteriaOnTrimmedStrings ==
  eval_call.called =>
    LET o == IF eval_call.model_output.some THEN eval_call.model_output.val ELSE <<>>
        r == IF eval_call.reference_input.some THEN eval_call.reference_input.val ELSE <<>>
        ink == {i \in 1..Len(o) : o[i] \notin Whitespace}
        c == eval_call.result.criteria
    IN  /\ c.has_content <=> ink # {}
        /\ c.reasonable_length <=> \E i \in ink, j \in ink : j - i + 1 > 10
        /\ c.not_just_input <=> Lower(Strip(o)) # Lower(Strip(r))
        /\ c.has_spaces <=> \E i \in ink, k \in ink :
                               \E j \in (i + 1)..(k - 1) : o[j] = " "
        /\ c.not_gibberish <=>
             Cardinality({i \in ink : i = 1 \/ o[i - 1] \in Whitespace}) > 2

\* two words separated by a tab, surrounded by whitespace and padded past 10
\* characters: non-empty, long enough, yet has_spaces is false
C15_Witness ==
  /\ eval_call.called
  /\ eval_call.model_output.some
  /\ Len(eval_call.model_output.val) > 10
  /\ eval_call.model_output.val[1] = " "
  /\ eval_call.model_output.val[3] = "\t"
  /\ eval_call.result.criteria.reasonable_length
  /\ ~eval_call.result.criteria.has_spaces

\* ------------------------------------------------------------------ C16
\* C16: a run_eval call emits exactly one score sample, one eval-duration
\* sample and one counter increment, on the passed counter exactly when the
\* returned passed is true and on the failed counter otherwise, all three
\* with the same system, operation, model and user_id attributes.
C16_EvalEmissions ==
  eval_call.called =>
    LET evs == eval_call.events
        verdict == IF eval_call.result.passed THEN "gen_ai.eval.passed"
                                              ELSE "gen_ai.eval.failed"
        other == IF eval_call.result.passed THEN "gen_ai.eval.failed"
                                            ELSE "gen_ai.eval.passed"
    IN  /\ Len(evs) = 3
        /\ Len(Named(evs, "gen_ai.eval.score")) = 1
        /\ Named(evs, "gen_ai.eval.score")[1].value = eval_call.result.score
        /\ Len(Named(evs, "gen_ai.eval.duration")) = 1
        /\ Len(Named(evs, verdict)) = 1
        /\ Named(evs, verdict)[1].value = 1
        /\ Len(Named(evs, other)) = 0
        /\ \A i \in 1..Len(evs) :
             /\ evs[i].attrs = evs[1].attrs
             /\ evs[i].attrs.system = eval_call.system
             /\ evs[i].attrs.operation = eval_call.operation
             /\ evs[i].attrs.model = eval_call.model
             /\ evs[i].attrs.user_id =
                  (IF eval_call.user_id = NoUserId THEN "unknown" ELSE eval_call.user_id)

\* a failed eval of a named user
C16_Witness ==
  /\ eval_call.called
  /\ eval_call.user_id = "u1"
  /\ ~eval_call.result.passed
  /\ Len(Named(eval_call.events, "gen_ai.eval.failed")) = 1

\* ------------------------------------------------------------------ C17
\* C17: a recognized explicit protocol (grpc, or http and its variants,
\* compared ignoring case and surrounding whitespace) is the mode whatever
\* the endpoint is; otherwise the mode is http exactly when the endpoint has
\* a path segment /otlp or /v1/, and grpc if it has none.  The path is what
\* follows the scheme and host:port; "/otlp" and "/v1/" are looked for in it
\* ignoring case and without asking that the segment ends there.
C17_ModeSelection ==
  otlp.resolved =>
    LET proto == IF otlp.explicit_protocol.some
                   THEN Lower(Strip(otlp.explicit_protocol.val)) ELSE <<>>
        path == SubSeq(otlp.endpoint, Len(grpc_hostport(otlp.endpoint)) + 1, Len(otlp.endpoint))
        segment == \/ Contains(Lower(path), <<"/", "otlp">>)
                   \/ Contains(Lower(path), <<"/", "v1", "/">>)
    IN  IF proto = <<"grpc">> THEN otlp.mode = "grpc"
        ELSE IF proto \in {<<"http">>, <<"http", "/", "protobuf">>,
                           <<"http", "_", "json">>, <<"http", "/", "json">>}
          THEN otlp.mode = "http"
        ELSE otlp.mode = "http" <=> segment

\* ------------------------------------------------------------------ C18
\* C18: in HTTP mode the traces and metrics endpoints are base + "/v1/traces"
\* and base + "/v1/metrics", where base is the endpoint with "/otlp" appended
\* exactly when the endpoint has no "/otlp" and no "/v1" path segment, and
\* the endpoint as it is otherwise (trailing slashes of the endpoint aside).
C18_HttpEndpoints ==
  (otlp.resolved /\ otlp.mode = "http") =>
    LET hp == Len(grpc_hostport(otlp.endpoint))
        given == RStripChars(otlp.endpoint, {"/"})
        IsSegment(i, name) ==
          /\ i > hp
          /\ i + 1 <= Len(given)
          /\ given[i] = "/"
          /\ given[i + 1] = name
          /\ (i + 2 > Len(given) \/ given[i + 2] = "/")
        present == \E i \in 1..Len(given) : IsSegment(i, "otlp") \/ IsSegment(i, "v1")
        base == IF present THEN given ELSE given \o <<"/", "otlp">>
    IN  /\ otlp.traces = base \o <<"/", "v1", "/", "traces">>
        /\ otlp.metrics = base \o <<"/", "v1", "/", "metrics">>

\* ------------------------------------------------------------------ C19
\* C19: in gRPC mode, for every endpoint, the traces and metrics endpoints
\* are equal and are the endpoint cut before the first "/" that follows the
\* optional scheme (whatever precedes a leading "://"): scheme, host and
\* port, no path; an endpoint without a path is returned unchanged.
C19_GrpcEndpoints ==
  (otlp.resolved /\ otlp.mode = "grpc") =>
    LET e == otlp.endpoint
        t == otlp.traces
        marks == {k \in 1..(Len(e) - 2) :
                    /\ e[k] = ":" /\ e[k + 1] = "/" /\ e[k + 2] = "/"
                    /\ \A j \in 1..(k - 1) : e[j] # "/"}
        sch == IF marks = {} THEN 0 ELSE (CHOOSE k \in marks : TRUE) + 2
        pathless == \A i \in (sch + 1)..Len(e) : e[i] # "/"
    IN  /\ otlp.metrics = t
        /\ Len(t) > sch
        /\ StartsWith(e, t)
        /\ \A i \in (sch + 1)..Len(t) : t[i] # "/"
        /\ (Len(t) = Len(e) \/ e[Len(t) + 1] = "/")
        /\ pathless => t = e

\* ------------------------------------------------------------------ C20
\* C20: the value stored for a key that is "authorization" ignoring case is
\* "Basic " + base64(creds) in exactly two cases: the value is "basic "
\* followed by creds that contain a colon, or the value starts with neither
\* "basic " nor "bearer " and contains a colon (creds is then the whole
\* value).  In every other case (a Bearer token, Basic credentials without a
\* colon) and for every other key the stored value is the given value,
\* trimmed of surrounding whitespace and quotes (quotes that end the whole
\* header string go first, then whitespace, then quotes around the value).
C20_AuthorizationRewrite ==
  header_call.called =>
    LET k == header_call.key
        given == IF header_call.rest = <<>>
                   THEN RStripChars(RStripChars(header_call.value, Whitespace), Quotes)
                   ELSE header_call.value
        v == StripChars(Strip(given), Quotes)
        basic == StartsWith(Lower(v), <<"basic", " ">>)
        bearer == StartsWith(Lower(v), <<"bearer", " ">>)
        creds == IF basic THEN Strip(SubSeq(v, 3, Len(v))) ELSE v
        rewritten == /\ Lower(k) = <<"authorization">>
                     /\ ~bearer
                     /\ \E i \in 1..Len(creds) : creds[i] = ":"
    IN  /\ k \in DOMAIN header_call.headers
        /\ header_call.headers[k] =
             (IF rewritten THEN <<"Basic", " ">> \o Base64(creds) ELSE v)
        /\ <<"Y">> \in DOMAIN header_call.headers =>
             header_call.headers[<<"Y">>] = <<"u", ":", "u">>

\* "Authorization=Basic u:" next to a second pair "Y=u:u": the credentials
\* are encoded, the other key keeps its colon
C20_Witness ==
  /\ header_call.called
  /\ header_call.key = <<"Authorization">>
  /\ header_call.value = <<"Basic", " ", "u", ":">>
  /\ header_call.headers[<<"Authorization">>] = <<"Basic", " ", "dQ", "Og">>
  /\ <<"Y">> \in DOMAIN header_call.headers
  /\ header_call.headers[<<"Y">>] = <<"u", ":", "u">>

\* ------------------------------------------------------------------ C21
\* C21: _parse_otlp_headers returns a mapping for every input.  For an unset
\* or empty variable the mapping is empty.  When the parsing raises (an
\* Authorization value that must be encoded holds a lone surrogate) the
\* mapping is empty, whatever was parsed before.  Otherwise its keys are the
\* trimmed keys of the parts that hold "=": a part without "=" adds nothing.
C21_NeverRaisesEmptyOnFailure ==
  header_call.called =>
    LET parts == header_call.parts
        idx == 1..Len(parts)
        raising == {<<"Authorization", "=", "u", ":", Surrogate>>}
        key == [p \in HeaderParts |->
                  IF p \in {<<"u">>, <<" ">>} THEN <<>>
                  ELSE IF p[1] = " " THEN <<"Y">> ELSE <<p[1]>>]
        raises == \E i \in idx : parts[i] \in raising
    IN  /\ (header_call.otlp_headers = NoneText \/ header_call.otlp_headers = SomeText(<<>>))
             => header_call.headers = EmptyHeaders
        /\ raises => header_call.headers = EmptyHeaders
        /\ ~raises => DOMAIN header_call.headers = {key[parts[i]] : i \in idx} \ {<<>>}

\* a pair was parsed, the next one raised, and the call returned no header
C21_Witness ==
  /\ header_call.called
  /\ header_call.parts = <<<<"X", "=", "u">>, <<"Authorization", "=", "u", ":", Surrogate>>>>
  /\ header_call.headers = EmptyHeaders

\* ------------------------------------------------------------------ C22
\* C22: a step that is not critical fails, and the run goes on: its response
\* is a summary that holds a record for every declared step, the failed one
\* with an error marker, and a total cost that is the sum over the steps that
\* succeeded.  The route declares no criticality for its steps, so this is
\* stated for whichever step fails.
C22_FailedStepDoesNotEndRun ==
  \A r \in Runs :
    LET run == pipeline[r]
        declared == IF run.store_results THEN 5 ELSE 4
        n == Len(run.results)
        cost[i \in 0..n] == IF i = 0 THEN 0 ELSE cost[i - 1] + run.results[i].cost_usd
    IN  run.pc = "responded" =>
          /\ "summary" \in DOMAIN run.response
          /\ Len(run.response.results) = declared
          /\ run.response.summary.total_cost_usd = cost[n]

\* ------------------------------------------------------------------ C23
\* C23: a critical step fails: no later step is executed, and the run still
\* answers with a finalized summary, marked partial or aborted, that holds the
\* results of the steps before the failure.
C23_FailureAbortsWithPartialSummary ==
  \A r \in Runs :
    LET run == pipeline[r]
    IN  (run.pc = "responded" /\ "failed" \in DOMAIN run.response) =>
          /\ \A i \in 1..Len(run.results) :
               \E j, k \in 1..Len(PipelineSteps) :
                 /\ PipelineSteps[j] = run.results[i].step
                 /\ PipelineSteps[k] = run.response.failed
                 /\ j < k
          /\ "summary" \in DOMAIN run.response
          /\ "results" \in DOMAIN run.response

\* ------------------------------------------------------------------ C24
\* C24 as stated: in every summary total_cost_usd is the sum of cost_usd and
\* total_duration_seconds the sum of duration_seconds over exactly the steps
\* that executed.
C24_TotalsAreStepSums ==
  \A r \in Runs :
    LET run == pipeline[r]
        n == Len(run.results)
        cost[i \in 0..n] == IF i = 0 THEN 0 ELSE cost[i - 1] + run.results[i].cost_usd
        duration[i \in 0..n] ==
          IF i = 0 THEN 0 ELSE duration[i - 1] + run.results[i].duration_seconds
    IN  run.response.status_code = 200 =>
          /\ run.response.summary.total_cost_usd = cost[n]
          /\ run.response.summary.total_duration_seconds = duration[n]

\* C24 amended: in every summary total_cost_usd is the sum of cost_usd over
\* exactly the steps that executed, and total_duration_seconds, the wall-clock
\* time of the run, is at least the sum of their duration_seconds; a storage
\* step that was skipped has no entry among the results.
C24_CostIsStepSumDurationIsWallClock ==
  \A r \in Runs :
    LET run == pipeline[r]
        n == Len(run.results)
        cost[i \in 0..n] == IF i = 0 THEN 0 ELSE cost[i - 1] + run.results[i].cost_usd
        duration[i \in 0..n] ==
          IF i = 0 THEN 0 ELSE duration[i - 1] + run.results[i].duration_seconds
    IN  run.response.status_code = 200 =>
          /\ run.response.summary.total_cost_usd = cost[n]
          /\ run.response.summary.total_duration_seconds >= duration[n]
          /\ ~run.store_results =>
               \A i \in 1..n : run.response.results[i].step # "add_embeddings"

\* a summary of a run that skipped the storage step, with a positive total cost
\* and more wall-clock time than the four steps measured
C24_Witness ==
  \E r \in Runs :
    /\ pipeline[r].response.status_code = 200
    /\ ~pipeline[r].store_results
    /\ pipeline[r].response.summary.total_cost_usd > 0
    /\ pipeline[r].response.summary.total_duration_seconds > 4 * step_duration

\* ------------------------------------------------------------------ C25
\* C25: once the views are registered, and whatever is recorded afterwards, the
\* boundaries of the token-usage histogram are 4^k for k = 0..13 and those of
\* the operation-duration histogram 0.01 s * 2^k for k = 0..13; both lists are
\* strictly increasing.
C25_BucketBoundariesFixed ==
  meter_provider.set_up =>
    LET token == meter_provider.views["gen_ai.client.token.usage"]
        duration == meter_provider.views["gen_ai.client.operation.duration"]
    IN  /\ token = [k \in 1..14 |-> 4 ^ (k - 1)]
        /\ duration = [k \in 1..14 |-> 10 * 2 ^ (k - 1)]
        /\ \A k \in 1..13 : token[k] < token[k + 1] /\ duration[k] < duration[k + 1]

\* samples were recorded after the registration, one of them a token count
\* above the last boundary
C25_Witness ==
  /\ meter_provider.set_up
  /\ meter_provider.samples >= 2
  /\ meter_provider.histograms["gen_ai.client.token.usage"][15] >= 1
  /\ meter_provider.histograms["gen_ai.client.operation.duration"][2] >= 1

\* ------------------------------------------------------------------ C26
\* C26: in every run of the pipeline the steps run in the declared order
\* (chat completion, embeddings, storage when requested, local generation,
\* similarity search): the results recorded so far are a prefix of that list,
\* in that order, the step in flight is the one that follows the last recorded
\* one, and a summary is returned only after the whole list.  Other runs in
\* flight do not change this.
C26_StepsInDeclaredOrder ==
  \A r \in Runs :
    LET run == pipeline[r]
        declared == IF run.store_results
                      THEN <<"chat_completion", "create_embeddings", "add_embeddings",
                             "generate_text", "similarity_search">>
                      ELSE <<"chat_completion", "create_embeddings",
                             "generate_text", "similarity_search">>
        n == Len(run.results)
    IN  /\ n <= Len(declared)
        /\ \A i \in 1..n : run.results[i].step = declared[i]
        /\ run.pc \notin {"idle", "responded"} => (n < Len(declared) /\ run.pc = declared[n + 1])
        /\ run.response.status_code = 200 => n = Len(declared)

\* two runs in flight at once: one awaits the similarity search after its four
\* earlier steps, the other one skipped the storage and awaits the local model
C26_Witness ==
  /\ pipeline[1].pc = "similarity_search" /\ Len(pipeline[1].results) = 4
  /\ pipeline[2].pc = "generate_text" /\ ~pipeline[2].store_results
  /\ Len(pipeline[2].results) = 2

\* ------------------------------------------------------------------ C27
\* C27: the net value of http_requests_active is the number of requests that
\* are inside the middleware; it is never negative, and it is 0 when every
\* request that entered has left, by a response, an exception or a
\* cancellation.
C27_ActiveRequestsIsRequestsInside ==
  /\ active_requests = Cardinality({q \in Requests : requests[q].pc = "inside"})
  /\ active_requests >= 0
  /\ (\A q \in Requests : requests[q].pc # "inside") => active_requests = 0

\* three requests entered; one was answered, one raised, one was cancelled
C27_Witness ==
  /\ \E q \in Requests : requests[q].outcome = "response"
  /\ \E q \in Requests : requests[q].outcome = "exception"
  /\ \E q \in Requests : requests[q].outcome = "cancelled"
  /\ active_requests = 0

\* ------------------------------------------------------------------ C28
\* C28: the cumulative value of vector_storage_documents_total is the sum of
\* len(documents) over the add_embeddings calls that returned.  A call changes
\* it only if it is an add_embeddings call that returned, and then by its
\* len(documents): a failed add_embeddings, a similarity_search and a
\* get_collection_stats leave it as it was.  It never decreases.
C28_StorageCounterSumsStoredDocuments ==
  [][LET before == storage_meter.vector_storage_documents_total
         after == storage_meter'.vector_storage_documents_total
     IN  /\ after = storage_meter'.documents_added
         /\ after >= before
         /\ after # before =>
              /\ done = NoDone
              /\ done'.op = "add_embeddings" /\ done'.outcome = "returned"
              /\ after = before + done'.arg]_vars

\* documents were counted, and a later add_embeddings call has failed
C28_Witness ==
  /\ storage_meter.vector_storage_documents_total >= 1
  /\ done.op = "add_embeddings"
  /\ done.outcome = "raised"

\* ------------------------------------------------------------------ C29
\* C29: in every successful response summary.steps_completed is the number of
\* steps that executed (4 when the storage step was skipped, 5 otherwise), and
\* documents_stored is 0 exactly when the storage step was skipped.
C29_StepsCompletedCountsExecutedSteps ==
  \A r \in Runs :
    LET run == pipeline[r]
        stored == \E i \in 1..Len(run.results) : run.results[i].step = "add_embeddings"
    IN  run.response.status_code = 200 =>
          /\ run.response.summary.steps_completed = Len(run.results)
          /\ run.response.summary.steps_completed = (IF run.store_results THEN 5 ELSE 4)
          /\ (run.response.summary.documents_stored = 0) <=> ~stored

\* ------------------------------------------------------------------ C30
\* C30: in HTTP mode the traces endpoint holds "/v1/traces" exactly once and
\* the metrics endpoint "/v1/metrics" exactly once; for an endpoint that
\* already holds "/v1/" (trailing slashes aside) nothing with a further "/v1/"
\* is appended.
C30_SignalSuffixOnce ==
  (otlp.resolved /\ otlp.mode = "http") =>
    LET Occurrences(s, pat) ==
          Cardinality({i \in 1..(Len(s) - Len(pat) + 1) :
                         SubSeq(s, i, i + Len(pat) - 1) = pat})
        v1 == <<"/", "v1", "/">>
        given == RStripChars(otlp.endpoint, {"/"})
    IN  /\ Occurrences(otlp.traces, <<"/", "v1", "/", "traces">>) = 1
        /\ Occurrences(otlp.metrics, <<"/", "v1", "/", "metrics">>) = 1
        /\ Contains(given, v1) =>
             /\ Occurrences(otlp.traces, v1) = Occurrences(given, v1)
             /\ Occurrences(otlp.metrics, v1) = Occurrences(given, v1)

====
